---- MODULE Spec2Model ----
(***************************************************************************)
(* Model of github.com/jkaveri/goconfig: the Loader that binds environment *)
(* variables into the fields of a record (config.go), its options and its  *)
(* default naming strategy (transformer.go).                               *)
(*                                                                         *)
(* Text is a sequence of one-character strings, so that joining,           *)
(* splitting, case conversion and parsing are computed character by        *)
(* character as the Go code and its standard library compute them.         *)
(***************************************************************************)
EXTENDS Integers, Sequences, FiniteSets, TLC

(***************************************************************************)
(* Bounds of the model.                                                    *)
(***************************************************************************)
\* At most this many looked-up keys are present in the environment in a run.
MaxPresent == 3

\* The most element texts of a sequence value considered.
MaxParts == 4

(***************************************************************************)
(* Characters (package unicode, restricted to ASCII).                      *)
(***************************************************************************)
LowerLetters ==
    <<"a","b","c","d","e","f","g","h","i","j","k","l","m",
      "n","o","p","q","r","s","t","u","v","w","x","y","z">>

UpperLetters ==
    <<"A","B","C","D","E","F","G","H","I","J","K","L","M",
      "N","O","P","Q","R","S","T","U","V","W","X","Y","Z">>

DigitChars == <<"0","1","2","3","4","5","6","7","8","9">>

IsLower(c) == \E i \in 1..Len(LowerLetters) : LowerLetters[i] = c

IsUpper(c) == \E i \in 1..Len(UpperLetters) : UpperLetters[i] = c

IsLetter(c) == IsLower(c) \/ IsUpper(c)

IsDigit(c) == \E i \in 1..Len(DigitChars) : DigitChars[i] = c

DigitVal(c) == (CHOOSE i \in 1..Len(DigitChars) : DigitChars[i] = c) - 1

ToUpper(c) ==
    IF IsLower(c)
    THEN UpperLetters[CHOOSE i \in 1..Len(LowerLetters) : LowerLetters[i] = c]
    ELSE c

ToLower(c) ==
    IF IsUpper(c)
    THEN LowerLetters[CHOOSE i \in 1..Len(UpperLetters) : UpperLetters[i] = c]
    ELSE c

(***************************************************************************)
(* Package strings.                                                        *)
(***************************************************************************)
RECURSIVE Concat(_)
\* The concatenation of a sequence of texts.
Concat(parts) ==
    IF parts = <<>> THEN <<>> ELSE Head(parts) \o Concat(Tail(parts))

RECURSIVE stringsJoin(_, _)
stringsJoin(arr, sep) ==
    IF arr = <<>> THEN <<>>
    ELSE IF Len(arr) = 1 THEN arr[1]
    ELSE arr[1] \o sep \o stringsJoin(Tail(arr), sep)

\* strings.Index: the first position where sep occurs in s, 0 if none.
stringsIndex(s, sep) ==
    LET n == Len(sep)
        hits == { i \in 1..(Len(s) - n + 1) : SubSeq(s, i, i + n - 1) = sep }
    IN  IF hits = {} THEN 0 ELSE CHOOSE i \in hits : \A j \in hits : i <= j

RECURSIVE stringsSplit(_, _)
\* strings.Split: an empty separator explodes the text into its characters.
stringsSplit(s, sep) ==
    IF sep = <<>>
    THEN [i \in 1..Len(s) |-> <<s[i]>>]
    ELSE LET i == stringsIndex(s, sep)
         IN  IF i = 0
             THEN <<s>>
             ELSE <<SubSeq(s, 1, i - 1)>>
                  \o stringsSplit(SubSeq(s, i + Len(sep), Len(s)), sep)

stringsToLower(s) == [i \in 1..Len(s) |-> ToLower(s[i])]

(***************************************************************************)
(* transformer.go                                                          *)
(***************************************************************************)
VoidTransformer(key) == key

\* canToUpper of UperCaseTransformer: the character has a distinct upper case.
canToUpper(c) == ToUpper(c) /= c

\* UperCaseTransformer's loop body, were it to look at the next rune only.
UperCaseRuneNextOnly(runes, i) ==
    IF /\ i > 1
       /\ IsUpper(runes[i])
       /\ IsLetter(runes[i])
       /\ runes[i - 1] /= "_"
       /\ i < Len(runes)
       /\ canToUpper(runes[i + 1])
    THEN <<"_", runes[i]>>
    ELSE <<ToUpper(runes[i])>>

\* What UperCaseTransformer writes for the rune at index i (1-based here).
UperCaseRune(runes, i) ==
    LET n == Len(runes)
        c == runes[i]
    IN  IF /\ i > 1
           /\ IsUpper(c)
           /\ IsLetter(c)
           /\ runes[i - 1] /= "_"
           /\ \/ (i < n /\ canToUpper(runes[i + 1]))
              \/ canToUpper(runes[i - 1])
        THEN <<"_", c>>
        ELSE <<ToUpper(c)>>

UperCaseTransformer(key) ==
    Concat([i \in 1..Len(key) |-> UperCaseRune(key, i)])

(***************************************************************************)
(* Package strconv.  A parse result is [ok, val, err].  Values are         *)
(* computed exactly for texts of fewer than ten digits, which is every     *)
(* text of the model; the 64-bit range test compares decimal digit         *)
(* strings, so it needs no number the checker cannot hold.                 *)
(***************************************************************************)
ParseOk(v) == [ok |-> TRUE, val |-> v, err |-> "none"]

ParseFail(e) == [ok |-> FALSE, val |-> 0, err |-> e]

AllDigits(s) == \A i \in 1..Len(s) : IsDigit(s[i])

RECURSIVE StripZeros(_)
StripZeros(s) ==
    IF Len(s) > 1 /\ s[1] = "0" THEN StripZeros(Tail(s)) ELSE s

RECURSIVE LexLess(_, _)
\* a < b for two digit strings of the same length.
LexLess(a, b) ==
    IF a = <<>> THEN FALSE
    ELSE IF a[1] /= b[1] THEN DigitVal(a[1]) < DigitVal(b[1])
    ELSE LexLess(Tail(a), Tail(b))

\* a > b for two decimal digit strings.
DecGreater(a, b) ==
    LET x == StripZeros(a)
        y == StripZeros(b)
    IN  \/ Len(x) > Len(y)
        \/ Len(x) = Len(y) /\ LexLess(y, x)

RECURSIVE DecValue(_)
DecValue(s) ==
    IF s = <<>> THEN 0
    ELSE 10 * DecValue(SubSeq(s, 1, Len(s) - 1)) + DigitVal(s[Len(s)])

\* 1<<64 - 1 and 1<<63, the limits of bitSize 64, as decimal digit strings.
MaxUint64Dec ==
    <<"1","8","4","4","6","7","4","4","0","7","3","7","0","9","5","5","1","6","1","5">>

Cutoff64Dec ==
    <<"9","2","2","3","3","7","2","0","3","6","8","5","4","7","7","5","8","0","8">>

\* The cutoff minus one: the largest int64.
MaxInt64Dec ==
    <<"9","2","2","3","3","7","2","0","3","6","8","5","4","7","7","5","8","0","7">>

\* strconv.ParseUint(s, 10, 64)
ParseUint64(s) ==
    IF s = <<>> THEN ParseFail("invalid syntax")
    ELSE IF ~AllDigits(s) THEN ParseFail("invalid syntax")
    ELSE IF DecGreater(s, MaxUint64Dec) THEN ParseFail("value out of range")
    ELSE ParseOk(DecValue(s))

\* strconv.ParseInt(s, 10, 64)
ParseInt64(s) ==
    IF s = <<>> THEN ParseFail("invalid syntax")
    ELSE LET neg  == s[1] = "-"
             body == IF s[1] = "+" \/ s[1] = "-" THEN Tail(s) ELSE s
         IN  IF body = <<>> \/ ~AllDigits(body) THEN ParseFail("invalid syntax")
             ELSE IF DecGreater(body, MaxUint64Dec) THEN ParseFail("value out of range")
             ELSE IF ~neg /\ DecGreater(body, MaxInt64Dec)
                  THEN ParseFail("value out of range")
             ELSE IF neg /\ DecGreater(body, Cutoff64Dec)
                  THEN ParseFail("value out of range")
             ELSE ParseOk(IF neg THEN 0 - DecValue(body) ELSE DecValue(body))

\* strconv.ParseFloat(s, 64) on the decimal texts without fraction or
\* exponent, which are the float texts of the model.
ParseFloat64(s) ==
    IF s = <<>> THEN ParseFail("invalid syntax")
    ELSE LET neg  == s[1] = "-"
             body == IF s[1] = "+" \/ s[1] = "-" THEN Tail(s) ELSE s
         IN  IF body = <<>> \/ ~AllDigits(body) THEN ParseFail("invalid syntax")
             ELSE ParseOk(IF neg THEN 0 - DecValue(body) ELSE DecValue(body))

TrueTexts ==
    { <<"1">>, <<"t">>, <<"T">>, <<"T","R","U","E">>, <<"t","r","u","e">>,
      <<"T","r","u","e">> }

FalseTexts ==
    { <<"0">>, <<"f">>, <<"F">>, <<"F","A","L","S","E">>, <<"f","a","l","s","e">>,
      <<"F","a","l","s","e">> }

\* strconv.ParseBool
ParseBool(s) ==
    IF s \in TrueTexts THEN ParseOk(TRUE)
    ELSE IF s \in FalseTexts THEN ParseOk(FALSE)
    ELSE [ok |-> FALSE, val |-> FALSE, err |-> "invalid syntax"]

(***************************************************************************)
(* time.ParseDuration on texts without a fraction: an optional sign, then  *)
(* "0", or one or more groups of digits followed by a unit.  A duration    *)
(* is counted in seconds here, so the units are those of a whole number    *)
(* of seconds.                                                             *)
(***************************************************************************)
UnitSeconds(u) ==
    IF u = <<"s">> THEN 1
    ELSE IF u = <<"m">> THEN 60
    ELSE IF u = <<"h">> THEN 3600
    ELSE 0

\* The length of the longest prefix of s made of digits (or of non-digits).
RECURSIVE SpanLen(_, _)
SpanLen(s, digits) ==
    IF s = <<>> \/ IsDigit(s[1]) /= digits THEN 0
    ELSE 1 + SpanLen(Tail(s), digits)

RECURSIVE DurationGroups(_)
\* The groups of a duration text after its sign: [ok, val].
DurationGroups(s) ==
    IF s = <<>> THEN [ok |-> TRUE, val |-> 0]
    ELSE LET nd   == SpanLen(s, TRUE)
             rest == SubSeq(s, nd + 1, Len(s))
             nu   == SpanLen(rest, FALSE)
             unit == SubSeq(rest, 1, nu)
             more == DurationGroups(SubSeq(rest, nu + 1, Len(rest)))
         IN  IF nd = 0 \/ nu = 0 \/ UnitSeconds(unit) = 0 \/ ~more.ok
             THEN [ok |-> FALSE, val |-> 0]
             ELSE [ok |-> TRUE,
                   val |-> DecValue(SubSeq(s, 1, nd)) * UnitSeconds(unit) + more.val]

ParseDuration(s) ==
    LET neg  == s /= <<>> /\ s[1] = "-"
        body == IF s /= <<>> /\ (s[1] = "+" \/ s[1] = "-") THEN Tail(s) ELSE s
        g    == DurationGroups(body)
    IN  IF body = <<"0">> THEN ParseOk(0)
        ELSE IF body = <<>> \/ ~g.ok THEN ParseFail("invalid duration")
        ELSE ParseOk(IF neg THEN 0 - g.val ELSE g.val)

(***************************************************************************)
(* json.Unmarshal into a map.  Of the texts of the model only the empty    *)
(* object literal is a JSON object; every other text is rejected.          *)
(***************************************************************************)
JSONUnmarshalMap(s) ==
    IF s = <<"{", "}">>
    THEN [ok |-> TRUE, val |-> <<>>, err |-> "none"]
    ELSE [ok |-> FALSE, val |-> <<>>, err |-> "invalid json"]

(***************************************************************************)
(* Records as reflection sees them.                                        *)
(*                                                                         *)
(* A field descriptor (reflect.StructField with its type) is a record:     *)
(*   name      the declared identifier                                     *)
(*   env,alias the result of Tag.Lookup: [ok, val]                         *)
(*   anon      an embedded (anonymous) field                               *)
(*   exported  CanSet: an unexported field cannot be set                   *)
(*   ptr       the field is a pointer to the type described                *)
(*   kind      "string", "bool", "duration", "int", "uint", "float",       *)
(*             "slice", "map", "struct" or "chan" (the dereferenced type)  *)
(*   bits      the width of an integer kind                                *)
(*   dec       the pointer to the type implements encoding.TextUnmarshaler *)
(*   fields    the fields of a struct kind                                 *)
(*   elem      the element descriptor of a slice kind (<<>> or <<e>>)      *)
(*                                                                         *)
(* Values: a text for a string, a number for the numeric kinds, a          *)
(* sequence for a slice and for a struct, NilPtr or Ptr(v) for a pointer,  *)
(* [isNil, entries] for a map, and [set, text] for a type that decodes     *)
(* itself from text (what its UnmarshalText last accepted).  A field with  *)
(* deep is a pointer to a pointer; its value is NilPtr, Ptr(NilPtr)       *)
(* or Ptr(Ptr(v)).                                                         *)
(***************************************************************************)
NoTag == [ok |-> FALSE, val |-> <<>>]

Tag(v) == [ok |-> TRUE, val |-> v]

Field(name, kind, bits) ==
    [name |-> name, env |-> NoTag, alias |-> NoTag, anon |-> FALSE,
     exported |-> TRUE, ptr |-> FALSE, kind |-> kind, bits |-> bits,
     dec |-> FALSE, fields |-> <<>>, elem |-> <<>>, deep |-> FALSE]

StructField(name, fields) ==
    [Field(name, "struct", 0) EXCEPT !.fields = fields]

SliceField(name, elem) ==
    [Field(name, "slice", 0) EXCEPT !.elem = <<elem>>]

NilPtr == [nil |-> TRUE]

Ptr(v) == [nil |-> FALSE, val |-> v]

NilMap == [isNil |-> TRUE, entries |-> <<>>]

Undecoded == [set |-> FALSE, text |-> <<>>]

RECURSIVE ZeroDirect(_)
\* reflect.Zero of the dereferenced type of a field.
ZeroDirect(t) ==
    IF t.dec /\ t.kind /= "struct" THEN Undecoded
    ELSE IF t.kind = "string" THEN <<>>
    ELSE IF t.kind = "bool" THEN FALSE
    ELSE IF t.kind \in {"duration", "int", "uint", "float"} THEN 0
    ELSE IF t.kind = "slice" THEN <<>>
    ELSE IF t.kind = "map" THEN NilMap
    ELSE IF t.kind = "struct"
         THEN [i \in 1..Len(t.fields) |->
                  IF t.fields[i].ptr THEN NilPtr ELSE ZeroDirect(t.fields[i])]
    ELSE NilPtr

\* The zero value of a field: a nil pointer for a pointer field.
ZeroOf(t) == IF t.ptr THEN NilPtr ELSE ZeroDirect(t)

\* The zero value of a struct type given by its fields.
ZeroStruct(fields) == [i \in 1..Len(fields) |-> ZeroOf(fields[i])]

RECURSIVE GetAt(_, _)
\* The value at a path of field indices through nested direct structs.
GetAt(v, path) ==
    IF path = <<>> THEN v ELSE GetAt(v[Head(path)], Tail(path))

RECURSIVE SetAt(_, _, _)
SetAt(v, path, new) ==
    IF path = <<>> THEN new
    ELSE [v EXCEPT ![Head(path)] = SetAt(v[Head(path)], Tail(path), new)]

(***************************************************************************)
(* config.go: the Loader.                                                  *)
(***************************************************************************)
DefaultSep == <<"_">>

DefaultArrSep == <<",">>

\* c.fieldNameTransformer(name), the transformer being named by its function.
fieldNameTransformer(c, name) ==
    IF c.fieldNameTransformer = "UperCaseTransformer" THEN UperCaseTransformer(name)
    ELSE IF c.fieldNameTransformer = "VoidTransformer" THEN VoidTransformer(name)
    ELSE IF c.fieldNameTransformer = "panics" THEN name
    ELSE stringsToLower(name)

\* getFieldName reaches the call of the transformer (no env tag, no alias
\* tag, a transformer that is not nil) and the caller's function panics.
getFieldNamePanics(c, tf) ==
    /\ ~tf.anon
    /\ ~tf.env.ok
    /\ ~tf.alias.ok
    /\ c.fieldNameTransformer = "panics"

\* getFieldName with the alias tag looked up before the env tag.
getFieldNameAliasFirst(c, tf) ==
    IF tf.alias.ok THEN [name |-> tf.alias.val, exactly |-> FALSE]
    ELSE IF tf.env.ok THEN [name |-> tf.env.val, exactly |-> TRUE]
    ELSE [name |-> IF c.fieldNameTransformer /= "nil"
                   THEN fieldNameTransformer(c, tf.name)
                   ELSE tf.name,
          exactly |-> FALSE]

getFieldName(c, tf) ==
    IF tf.env.ok THEN [name |-> tf.env.val, exactly |-> TRUE]
    ELSE IF tf.alias.ok THEN [name |-> tf.alias.val, exactly |-> FALSE]
    ELSE [name |-> IF c.fieldNameTransformer /= "nil"
                   THEN fieldNameTransformer(c, tf.name)
                   ELSE tf.name,
          exactly |-> FALSE]

\* joinKeys without the skip of empty names.
joinKeysKeepEmpty(c, names) ==
    stringsJoin((IF c.prefix /= <<>> THEN <<c.prefix>> ELSE <<>>) \o names, c.sep)

\* The closure joinKeys of buildEnvKey.
joinKeys(c, names) ==
    stringsJoin((IF c.prefix /= <<>> THEN <<c.prefix>> ELSE <<>>)
                    \o SelectSeq(names, LAMBDA name : name /= <<>>),
                c.sep)

\* A []string: its backing array in the arrays allocated so far (0 for the
\* nil slice), its length and its capacity.
NilSlice == [arr |-> 0, len |-> 0, cap |-> 0]

\* The elements of a slice.
Elems(heap, s) == IF s.arr = 0 THEN <<>> ELSE SubSeq(heap[s.arr], 1, s.len)

\* The capacity append grows a full slice of strings to, for the few
\* elements of a segment stack: one element for none, else twice as many.
growCap(cap) == IF cap = 0 THEN cap + 1 ELSE cap + cap

\* append(s, x), were it to write x over the last element of a slice that
\* still has room.
appendOverLast(heap, s, x) ==
    IF s.len < s.cap
    THEN [heap  |-> [heap EXCEPT ![s.arr][s.len] = x],
          slice |-> [s EXCEPT !.len = s.len + 1]]
    ELSE [heap  |-> Append(heap,
                       [i \in 1..growCap(s.cap) |->
                           IF i <= s.len THEN heap[s.arr][i]
                           ELSE IF i = s.len + 1 THEN x ELSE <<>>]),
          slice |-> [arr |-> Len(heap) + 1, len |-> s.len + 1,
                     cap |-> growCap(s.cap)]]

\* append(s, x): x is written behind the last element into the backing array
\* if it has room, an array every slice cut from it shares; else into a
\* larger array the elements are copied to.
append(heap, s, x) ==
    IF s.len < s.cap
    THEN [heap  |-> [heap EXCEPT ![s.arr][s.len + 1] = x],
          slice |-> [s EXCEPT !.len = s.len + 1]]
    ELSE [heap  |-> Append(heap,
                       [i \in 1..growCap(s.cap) |->
                           IF i <= s.len THEN heap[s.arr][i]
                           ELSE IF i = s.len + 1 THEN x ELSE <<>>]),
          slice |-> [arr |-> Len(heap) + 1, len |-> s.len + 1,
                     cap |-> growCap(s.cap)]]

\* buildEnvKey that hands on the parent's stack for a field with an env tag.
buildEnvKeyExactNotPushed(c, tf, parentKeys) ==
    IF tf.anon
    THEN [key |-> joinKeys(c, parentKeys), keys |-> parentKeys]
    ELSE LET fn == getFieldName(c, tf)
             pk == Append(parentKeys, fn.name)
         IN  IF ~fn.exactly
             THEN [key |-> joinKeys(c, pk), keys |-> pk]
             ELSE [key |-> fn.name, keys |-> parentKeys]

\* buildEnvKey without the case of the embedded field.
buildEnvKeyAnonPushed(c, tf, parentKeys) ==
    LET fn == getFieldName(c, tf)
        pk == Append(parentKeys, fn.name)
    IN  IF ~fn.exactly
        THEN [key |-> joinKeys(c, pk), keys |-> pk]
        ELSE [key |-> fn.name, keys |-> pk]

\* buildEnvKey: the lookup key and the segment stack handed on.
buildEnvKey(c, tf, parentKeys) ==
    IF tf.anon
    THEN [key |-> joinKeys(c, parentKeys), keys |-> parentKeys]
    ELSE LET fn == getFieldName(c, tf)
             pk == Append(parentKeys, fn.name)
         IN  IF ~fn.exactly
             THEN [key |-> joinKeys(c, pk), keys |-> pk]
             ELSE [key |-> fn.name, keys |-> pk]

\* The slice buildEnvKey returns with the segments keys, and the arrays after
\* it: parentKeys itself, or append(parentKeys, name).
parentKeysAfter(heap, parentKeys, keys) ==
    IF Len(keys) > parentKeys.len
    THEN append(heap, parentKeys, keys[Len(keys)])
    ELSE [heap |-> heap, slice |-> parentKeys]

\* isTextUnmarshaler: the value is addressable (every field and slice element
\* reached from the pointer given to Load is) and the pointer to its type has
\* the UnmarshalText method.
isTextUnmarshaler(t) == t.dec

\* reflect.Value.SetInt on a field of the given width: the conversion
\* intN(x).  Every parsed value of the model is below 2^31, which 32 and
\* 64 bits hold unchanged.
SetInt(x, bits) ==
    IF bits >= 32 THEN x
    ELSE LET m == 2 ^ bits
         IN  ((x + m \div 2) % m) - m \div 2

\* reflect.Value.SetUint: the conversion uintN(x).
SetUint(x, bits) ==
    IF bits >= 32 THEN x ELSE x % (2 ^ bits)

NoCause == <<>>

\* A panic with value p, raised below setFieldVal and unwinding through it.
Panicked(p) == <<"panic", p>>

IsPanic(e) == e /= <<>> /\ e[1] = "panic"

\* The result of setting one value: what setFieldVal returns (set, err), the
\* value the field holds afterwards, and the branch that handled it.
SetResult(set, err, val, via) ==
    [set |-> set, err |-> err, val |-> val, via |-> via]

setBoolVal(old, envVal) ==
    LET r == ParseBool(envVal)
    IN  IF r.ok THEN [err |-> NoCause, val |-> r.val]
        ELSE [err |-> <<"strconv.ParseBool", r.err>>, val |-> old]

setDurationVal(old, envVal) ==
    LET r == ParseDuration(envVal)
    IN  IF r.ok THEN [err |-> NoCause, val |-> r.val]
        ELSE [err |-> <<"time.ParseDuration", r.err>>, val |-> old]

setIntVal(old, raw, bits) ==
    LET r == ParseInt64(raw)
    IN  IF r.ok THEN [err |-> NoCause, val |-> SetInt(r.val, bits)]
        ELSE [err |-> <<"strconv.ParseInt", r.err>>, val |-> old]

setUintVal(old, raw, bits) ==
    LET r == ParseUint64(raw)
    IN  IF r.ok THEN [err |-> NoCause, val |-> SetUint(r.val, bits)]
        ELSE [err |-> <<"strconv.ParseUint", r.err>>, val |-> old]

setFloatVal(old, raw) ==
    LET r == ParseFloat64(raw)
    IN  IF r.ok THEN [err |-> NoCause, val |-> r.val]
        ELSE [err |-> <<"strconv.ParseFloat", r.err>>, val |-> old]

setMapVal(old, jsonStr) ==
    LET r == JSONUnmarshalMap(jsonStr)
    IN  IF r.ok THEN [err |-> NoCause, val |-> [isNil |-> FALSE, entries |-> r.val]]
        ELSE [err |-> <<"json.Unmarshal", r.err>>, val |-> old]

\* What the file behind a JSONFile parses to (the payload type has one field).
FilePayload == << <<"o","k">> >>

\* UnmarshalText of a field's type, the collaborator behind
\* encoding.TextUnmarshaler; decRes says whether it accepts the text
\* ("ok"), returns an error ("error") or panics ("panic").  A
\* struct type is a configtype.JSONFile: fields FilePath and Data, an empty
\* text is a no-op, the path is stored before the file is read and parsed.
\* Any other type keeps the text it accepted: [set, text].
UnmarshalText(t, old, envVal, decRes) ==
    IF t.kind = "struct"
    THEN IF Len(envVal) = 0 THEN [err |-> NoCause, val |-> old]
         ELSE IF decRes = "ok" THEN [err |-> NoCause, val |-> <<envVal, FilePayload>>]
         ELSE IF decRes = "panic" THEN [err |-> Panicked("UnmarshalText"), val |-> old]
         ELSE [err |-> <<"cannot load json file">>, val |-> <<envVal, old[2]>>]
    ELSE IF decRes = "ok" THEN [err |-> NoCause, val |-> [set |-> TRUE, text |-> envVal]]
    ELSE IF decRes = "panic" THEN [err |-> Panicked("UnmarshalText"), val |-> old]
    ELSE [err |-> <<"UnmarshalText">>, val |-> old]

RECURSIVE setFieldVal(_, _, _, _, _)

RECURSIVE SliceElems(_, _, _, _, _)
\* The loop of setSliceValue from part i on: the error of the first part
\* that fails, or the elements set.
SliceElems(c, et, parts, i, decRes) ==
    IF i > Len(parts) THEN [err |-> NoCause, val |-> <<>>]
    ELSE LET r == setFieldVal(c, et, ZeroOf(et), parts[i], decRes)
         IN  IF IsPanic(r.err) THEN [err |-> r.err, val |-> <<>>]
             ELSE IF r.err /= NoCause
             THEN [err |-> <<"cannot set slice value">> \o r.err, val |-> <<>>]
             ELSE LET rest == SliceElems(c, et, parts, i + 1, decRes)
                  IN  [err |-> rest.err, val |-> <<r.val>> \o rest.val]

\* setSliceValue that splits on the default separator, whatever the option.
setSliceValueDefaultSep(c, t, old, evnVal, decRes) ==
    LET parts == stringsSplit(evnVal, DefaultArrSep)
    IN  IF Len(parts) = 0 THEN [err |-> NoCause, val |-> old]
        ELSE LET r == SliceElems(c, t.elem[1], parts, 1, decRes)
             IN  IF r.err /= NoCause THEN [err |-> r.err, val |-> old]
                 ELSE [err |-> NoCause, val |-> r.val]

\* setSliceValue, were it to assign the slice it made before filling it.
setSliceValueAssignsFirst(c, t, old, evnVal, decRes) ==
    LET parts == stringsSplit(evnVal, c.arraySep)
        made == [i \in 1..Len(parts) |-> ZeroOf(t.elem[1])]
    IN  IF Len(parts) = 0 THEN [err |-> NoCause, val |-> made]
        ELSE LET r == SliceElems(c, t.elem[1], parts, 1, decRes)
             IN  IF r.err /= NoCause THEN [err |-> r.err, val |-> made]
                 ELSE [err |-> NoCause, val |-> r.val]

setSliceValue(c, t, old, evnVal, decRes) ==
    LET parts == stringsSplit(evnVal, c.arraySep)
    IN  IF Len(parts) = 0 THEN [err |-> NoCause, val |-> old]
        ELSE LET r == SliceElems(c, t.elem[1], parts, 1, decRes)
             IN  IF r.err /= NoCause THEN [err |-> r.err, val |-> old]
                 ELSE [err |-> NoCause, val |-> r.val]

\* A branch of setFieldVal that returns true with the error of the setter it
\* called; r is what the setter returned and left in the value.
Handled(r, via) == SetResult(TRUE, r.err, r.val, via)

\* The switch of setFieldVal with a default case that returns no error.
setByKindDefaultIgnored(c, t, d, envVal, decRes) ==
    IF t.kind = "string" THEN SetResult(TRUE, NoCause, envVal, "string")
    ELSE IF t.kind = "bool" THEN Handled(setBoolVal(d, envVal), "bool")
    ELSE IF t.kind = "duration" THEN Handled(setDurationVal(d, envVal), "duration")
    ELSE IF t.kind = "int" THEN Handled(setIntVal(d, envVal, t.bits), "int")
    ELSE IF t.kind = "uint" THEN Handled(setUintVal(d, envVal, t.bits), "uint")
    ELSE IF t.kind = "float" THEN Handled(setFloatVal(d, envVal), "float")
    ELSE IF t.kind = "slice"
         THEN Handled(setSliceValue(c, t, d, envVal, decRes), "slice")
    ELSE IF t.kind = "map" THEN Handled(setMapVal(d, envVal), "map")
    ELSE SetResult(FALSE, NoCause, d, "struct")

\* The switch of setFieldVal on the kind of the dereferenced value d.
setByKind(c, t, d, envVal, decRes) ==
    IF t.kind = "string" THEN SetResult(TRUE, NoCause, envVal, "string")
    ELSE IF t.kind = "bool" THEN Handled(setBoolVal(d, envVal), "bool")
    ELSE IF t.kind = "duration" THEN Handled(setDurationVal(d, envVal), "duration")
    ELSE IF t.kind = "int" THEN Handled(setIntVal(d, envVal, t.bits), "int")
    ELSE IF t.kind = "uint" THEN Handled(setUintVal(d, envVal, t.bits), "uint")
    ELSE IF t.kind = "float" THEN Handled(setFloatVal(d, envVal), "float")
    ELSE IF t.kind = "slice"
         THEN Handled(setSliceValue(c, t, d, envVal, decRes), "slice")
    ELSE IF t.kind = "map" THEN Handled(setMapVal(d, envVal), "map")
    ELSE IF t.kind = "struct" THEN SetResult(FALSE, NoCause, d, "struct")
    ELSE SetResult(FALSE, <<"unsupported">>, d, "unsupported")

\* setDirectVal with the switch on the kind first, UnmarshalText being tried
\* for the kinds the switch does not set.
setDirectValKindFirst(c, t, d, envVal, decRes) ==
    IF isTextUnmarshaler(t) /\ t.kind \in {"struct", "chan"}
    THEN Handled(UnmarshalText(t, d, envVal, decRes), "UnmarshalText")
    ELSE setByKind(c, [t EXCEPT !.dec = FALSE], d, envVal, decRes)

\* setFieldVal on the dereferenced value d of a field: UnmarshalText if the
\* type has it, else the switch on the kind.
setDirectVal(c, t, d, envVal, decRes) ==
    IF isTextUnmarshaler(t)
    THEN Handled(UnmarshalText(t, d, envVal, decRes), "UnmarshalText")
    ELSE setByKind(c, t, d, envVal, decRes)

\* The result r of setting the value behind a pointer field, as the result
\* for the field: the field holds the pointer.
Pointed(r) == SetResult(r.set, r.err, Ptr(r.val), r.via)

\* The result for a field that is a pointer to a pointer, both not nil.
PointedTwice(r) == SetResult(r.set, r.err, Ptr(Ptr(r.val)), r.via)

\* setFieldVal, were it to leave a nil pointer nil when the value cannot be
\* set.
setFieldValAllocatesLate(c, t, fval, envVal, decRes) ==
    IF ~t.exported
    THEN SetResult(FALSE, <<"field is cannot be set">>, fval, "cannot set")
    ELSE IF t.deep
         THEN IF fval.nil \/ fval.val.nil
              THEN SetResult(FALSE,
                             Panicked("reflect: call of reflect.Value.Type on zero Value"),
                             IF fval.nil THEN Ptr(NilPtr) ELSE fval, "panic")
              ELSE PointedTwice(setDirectVal(c, t, fval.val.val, envVal, decRes))
    ELSE IF t.ptr
         THEN LET r == setDirectVal(c, t, IF fval.nil THEN ZeroDirect(t) ELSE fval.val,
                                    envVal, decRes)
              IN  IF fval.nil /\ r.err /= NoCause
                  THEN SetResult(r.set, r.err, fval, r.via)
                  ELSE Pointed(r)
         ELSE setDirectVal(c, t, fval, envVal, decRes)

\* setFieldVal: a nil pointer is first made to point to a fresh zero value,
\* then the value behind the pointer is set.  Of a pointer to a pointer only
\* the first level is allocated: getDirectVal then ends at the zero Value, on
\* which isDuration calls Type, which panics.
setFieldVal(c, t, fval, envVal, decRes) ==
    IF ~t.exported
    THEN SetResult(FALSE, <<"field is cannot be set">>, fval, "cannot set")
    ELSE IF t.deep
         THEN IF fval.nil \/ fval.val.nil
              THEN SetResult(FALSE,
                             Panicked("reflect: call of reflect.Value.Type on zero Value"),
                             IF fval.nil THEN Ptr(NilPtr) ELSE fval, "panic")
              ELSE PointedTwice(setDirectVal(c, t, fval.val.val, envVal, decRes))
    ELSE IF t.ptr
         THEN Pointed(setDirectVal(c, t, IF fval.nil THEN ZeroDirect(t) ELSE fval.val,
                                   envVal, decRes))
         ELSE setDirectVal(c, t, fval, envVal, decRes)

(***************************************************************************)
(* Options (options file) and New.                                         *)
(***************************************************************************)
WithPrefix(prefix) == [opt |-> "prefix", val |-> prefix]

WithSeparator(sep) == [opt |-> "sep", val |-> sep]

WithArraySeparator(sep) == [opt |-> "arraySep", val |-> sep]

WithKeyTransformer(transformer) == [opt |-> "transformer", val |-> transformer]

\* opt(c): one option applied to the Loader.
ApplyOption(c, o) ==
    IF o.opt = "prefix" THEN [c EXCEPT !.prefix = o.val]
    ELSE IF o.opt = "sep" THEN [c EXCEPT !.sep = o.val]
    ELSE IF o.opt = "arraySep" THEN [c EXCEPT !.arraySep = o.val]
    ELSE [c EXCEPT !.fieldNameTransformer = o.val]

RECURSIVE ApplyOptions(_, _)
ApplyOptions(c, options) ==
    IF options = <<>> THEN c
    ELSE ApplyOptions(ApplyOption(c, Head(options)), Tail(options))

New(options) ==
    ApplyOptions([sep |-> DefaultSep, prefix |-> <<>>, arraySep |-> DefaultArrSep,
                  fieldNameTransformer |-> "UperCaseTransformer"],
                 options)

(***************************************************************************)
(* The inputs of the model: Loaders, record types, environment texts.      *)
(***************************************************************************)
APP == <<"A","P","P">>

OptionLists ==
    { <<>>,
      <<WithPrefix(APP), WithSeparator(<<".">>)>>,
      <<WithPrefix(APP), WithArraySeparator(<<";">>)>>,
      <<WithKeyTransformer("strings.ToLower")>>,
      <<WithSeparator(<<>>), WithKeyTransformer("nil")>>,
      <<WithKeyTransformer("panics")>>,
      <<WithArraySeparator(<<>>)>> }

Loaders == { New(options) : options \in OptionLists }

\* struct { Host string `env:"HOST"`; Port int `env:"PORT"` }
ServerConfig ==
    << [Field(<<"H","o","s","t">>, "string", 0) EXCEPT !.env = Tag(<<"H","O","S","T">>)],
       [Field(<<"P","o","r","t">>, "int", 64) EXCEPT !.env = Tag(<<"P","O","R","T">>)] >>

\* BasicConfig of config_test.go.
BasicConfig ==
    ServerConfig \o
    << Field(<<"T","i","m","e","o","u","t">>, "duration", 64),
       Field(<<"D","e","b","u","g">>, "bool", 0),
       SliceField(<<"N","u","m","b","e","r","s">>, Field(<<>>, "int", 64)),
       Field(<<"S","e","t","t","i","n","g","s">>, "map", 0) >>

\* NestedConfig of config_test.go, its Server holding the first two fields of
\* BasicConfig.
NestedConfig ==
    << StructField(<<"S","e","r","v","e","r">>, ServerConfig),
       StructField(<<"D","B">>,
           << Field(<<"H","o","s","t">>, "string", 0),
              Field(<<"P","o","r","t">>, "int", 64),
              [Field(<<"P","a","s","s","w","o","r","d">>, "string", 0) EXCEPT !.env = Tag(<<"D","B","_","P","A","S","S","W","O","R","D">>)] >>) >>

\* PointerConfig of config_test.go.
PointerConfig ==
    << [StructField(<<"S","e","r","v","e","r">>, ServerConfig) EXCEPT !.ptr = TRUE],
       [StructField(<<"D","B">>,
            << Field(<<"H","o","s","t">>, "string", 0), Field(<<"P","o","r","t">>, "int", 64) >>)
        EXCEPT !.ptr = TRUE] >>

\* struct { Outer *struct { Inner *struct { X string }; Y int8 }; Z *int;
\*          Host string }
DeepPointerConfig ==
    << [StructField(<<"O","u","t","e","r">>,
            << [StructField(<<"I","n","n","e","r">>, << Field(<<"X">>, "string", 0) >>)
                EXCEPT !.ptr = TRUE],
               Field(<<"Y">>, "int", 8) >>)
        EXCEPT !.ptr = TRUE],
       [Field(<<"Z">>, "int", 64) EXCEPT !.ptr = TRUE],
       Field(<<"H","o","s","t">>, "string", 0) >>

\* struct { Base; Name string `alias:"name"`; DB struct { Inner } } with
\* Base = struct { Host string; Port uint8 } and Inner = struct { Host string }
\* both embedded.
EmbeddedConfig ==
    << [StructField(<<"B","a","s","e">>,
            << Field(<<"H","o","s","t">>, "string", 0), Field(<<"P","o","r","t">>, "uint", 8) >>)
        EXCEPT !.anon = TRUE],
       [Field(<<"N","a","m","e">>, "string", 0) EXCEPT !.alias = Tag(<<"n","a","m","e">>)],
       StructField(<<"D","B">>,
           << [StructField(<<"I","n","n","e","r">>, << Field(<<"H","o","s","t">>, "string", 0) >>)
               EXCEPT !.anon = TRUE] >>) >>

\* struct { DB struct { Host string; Port int16 } `env:"DATABASE"`;
\*          Cache struct { TTL time.Duration } `alias:"cache"`;
\*          Key string `env:"KEY" alias:"k"`; hidden string; Ch chan int;
\*          Rate float64 `alias:""` }
ExactConfig ==
    << [StructField(<<"D","B">>,
            << Field(<<"H","o","s","t">>, "string", 0), Field(<<"P","o","r","t">>, "int", 16) >>)
        EXCEPT !.env = Tag(<<"D","A","T","A","B","A","S","E">>)],
       [StructField(<<"C","a","c","h","e">>, << Field(<<"T","T","L">>, "duration", 64) >>)
        EXCEPT !.alias = Tag(<<"c","a","c","h","e">>)],
       [Field(<<"K","e","y">>, "string", 0) EXCEPT !.env = Tag(<<"K","E","Y">>), !.alias = Tag(<<"k">>)],
       [Field(<<"h","i","d","d","e","n">>, "string", 0) EXCEPT !.exported = FALSE],
       Field(<<"C","h">>, "chan", 0),
       [Field(<<"R","a","t","e">>, "float", 64) EXCEPT !.alias = Tag(<<>>)] >>

\* Fields whose types decode themselves from text: a string type, an
\* integer type, a slice type, and a pointer to a configtype.JSONFile.
DecodeConfig ==
    << [Field(<<"S","e","c","r","e","t">>, "string", 0) EXCEPT !.dec = TRUE],
       [Field(<<"L","e","v","e","l">>, "int", 8) EXCEPT !.dec = TRUE],
       [SliceField(<<"T","a","g","s">>, Field(<<>>, "string", 0)) EXCEPT !.dec = TRUE],
       [StructField(<<"F","i","l","e">>,
            << Field(<<"F","i","l","e","P","a","t","h">>, "string", 0),
               StructField(<<"D","a","t","a">>, << Field(<<"N","a","m","e">>, "string", 0) >>) >>)
        EXCEPT !.ptr = TRUE, !.dec = TRUE] >>

\* struct { A int8; B uint8; C int16; D *uint16; Conf JSONFile; M map }
WidthConfig ==
    << Field(<<"A">>, "int", 8),
       Field(<<"B">>, "uint", 8),
       Field(<<"C">>, "int", 16),
       [Field(<<"D">>, "uint", 16) EXCEPT !.ptr = TRUE],
       [StructField(<<"C","o","n","f">>,
            << Field(<<"F","i","l","e","P","a","t","h">>, "string", 0),
               StructField(<<"D","a","t","a">>, << Field(<<"N","a","m","e">>, "string", 0) >>) >>)
        EXCEPT !.dec = TRUE] >>

\* struct { Name string; PC *chan int; PP (pointer to pointer to int);
\*          PS (pointer to pointer to struct { X string }) }
MultiPointerConfig ==
    << Field(<<"N","a","m","e">>, "string", 0),
       [Field(<<"P","C">>, "chan", 0) EXCEPT !.ptr = TRUE],
       [Field(<<"P","P">>, "int", 64) EXCEPT !.ptr = TRUE, !.deep = TRUE],
       [StructField(<<"P","S">>, << Field(<<"X">>, "string", 0) >>)
        EXCEPT !.ptr = TRUE, !.deep = TRUE] >>

\* struct { A struct { B struct { C struct { X string; Y struct { Z string };
\*          W string } } } }: below C the segment stack is as long as append
\* made its backing array large.
LayeredConfig ==
    << StructField(<<"A">>,
         << StructField(<<"B">>,
              << StructField(<<"C">>,
                   << Field(<<"X">>, "string", 0),
                      StructField(<<"Y">>, << Field(<<"Z">>, "string", 0) >>),
                      Field(<<"W">>, "string", 0) >>) >>) >>) >>

Shapes ==
    { BasicConfig, NestedConfig, PointerConfig, DeepPointerConfig,
      EmbeddedConfig, ExactConfig, DecodeConfig, WidthConfig,
      MultiPointerConfig, LayeredConfig }

\* A value the caller has put into a field before Load, other than the zero
\* value for the kinds the built-in coercions parse.
PriorDirect(t) ==
    IF t.dec THEN ZeroDirect(t)
    ELSE IF t.kind = "slice" THEN <<9>>
    ELSE IF t.kind = "bool" THEN TRUE
    ELSE IF t.kind \in {"duration", "int", "uint", "float"} THEN 5
    ELSE ZeroDirect(t)

RECURSIVE Prefilled(_)
\* A record of the type with every pointer already pointing to a value and
\* every field of a parsed kind already holding one.
Prefilled(fields) ==
    [i \in 1..Len(fields) |->
        LET t == fields[i]
            d == IF t.kind = "struct" THEN Prefilled(t.fields) ELSE PriorDirect(t)
        IN  IF t.deep THEN Ptr(Ptr(d)) ELSE IF t.ptr THEN Ptr(d) ELSE d]

\* The records Load may be given for a type.
InitialRecords(fields) == { ZeroStruct(fields), Prefilled(fields) }

\* What UnmarshalText of a caller's type may do with a text.
DecodeOutcomes == { "ok", "error", "panic" }

\* What is passed to Load: a pointer to a record, a record by value, nil, a
\* nil pointer to a record, a pointer to an int.
Targets == { "ptrStruct", "struct", "nil", "nilPtr", "ptrInt" }

\* The texts the environment may hold for a key, by the kind of the field
\* that looks it up: well-formed, out of range for a narrow width, and
\* malformed ones.
TextsFor(tf) ==
    IF tf.dec THEN { <<"a","b","c">> }
    ELSE IF tf.kind = "string" THEN { <<"a","b","c">> }
    ELSE IF tf.kind = "bool" THEN { <<"t","r","u","e">>, <<"y","e","s">> }
    ELSE IF tf.kind = "duration" THEN { <<"5","s">>, <<"a","b","c">> }
    ELSE IF tf.kind \in {"int", "uint"} THEN { <<"7">>, <<"3","0","0">>, <<"4","0","0","0","0">>, <<"a","b","c">> }
    ELSE IF tf.kind = "float" THEN { <<"3","0","0">>, <<"a","b","c">> }
    ELSE IF tf.kind = "slice"
         THEN { <<"1",",","2",",","3",",","4">>, <<"1",";","2",";","3",";","4">>,
                <<"1",",","x">>, <<>> }
    ELSE IF tf.kind = "map" THEN { <<"{", "}">>, <<"a","b","c">> }
    ELSE { <<"1">> }

(***************************************************************************)
(* The state.                                                              *)
(***************************************************************************)
VARIABLES
    loader,    \* the Loader: prefix, sep, arraySep, fieldNameTransformer
    typ,       \* the fields of the record type bound
    target,    \* what Load is given, one of Targets
    rec,       \* the caller's record
    rec0,      \* the caller's record when Load was called
    env,       \* the environment, as far as it has been read
    stack,     \* the calls of recursiveLoadToStruct in progress
    lookups,   \* what each loadToField call did, in order
    pc,        \* "idle", "walk", "done", "crashed" by a panic nothing recovered,
               \* or "library" where Load is not called
    err,       \* the error being returned
    found,     \* the found result of the root call
    faults,    \* the panics raised: where, and at which field of the type
    arrays,    \* the backing arrays of the segment stacks of the call
    other,     \* a second call of Load on the same Loader, while it is not
               \* the one taking steps; NoCall when Load is called alone
    recv,      \* package configtype: the value a method is called on
    files,     \* package configtype: the files, by path
    osEnv,     \* package configtype: the environment os.ExpandEnv reads
    ret        \* package configtype: the last call and what it returned

\* The variables of package configtype and of the naming strategy called
\* on their own.
libvars == <<recv, files, osEnv, ret>>

vars == <<loader, typ, target, rec, rec0, env, stack, lookups, pc, err, found,
          faults, arrays, other, recv, files, osEnv, ret>>

\* No second call.
NoCall == [id |-> 0]

\* The Loader after buildEnvKey and getFieldName ran with it, were they to
\* keep the key they built in the Loader.
LoaderAfterKeyKept(c, key) == [c EXCEPT !.prefix = key]

\* The Loader after buildEnvKey and getFieldName ran with it: they read
\* prefix, sep and fieldNameTransformer and assign none of them.
LoaderAfter(c, key) == c

NoErr == [kind |-> "none", key |-> <<>>, chain |-> <<>>]

\* errors.Errorf("should be a pointer to %T", s)
UsageError == [kind |-> "usage", key |-> <<>>, chain |-> <<"should be a pointer">>]

\* A Go type as the messages print it (%T, Type.String): the number of
\* pointer levels and the type pointed to.
TypeOf(ptrs, kind, bits, fields) ==
    [ptrs |-> ptrs, kind |-> kind, bits |-> bits, fields |-> fields]

\* The error a deferred recover builds from the panic value p: the type of
\* the record (recursiveLoadToStruct) or of the field (loadToField), and
\* the prefix joined by the separator.
PanicError(c, prefix, p, of) ==
    [kind |-> "panic", key |-> stringsJoin(prefix, c.sep), chain |-> <<p>>,
     of |-> of]

\* The error wrapped without the key.
FieldErrorNoKey(envKey, err1) == [kind |-> "field", key |-> <<>>, chain |-> err1]

\* errors.Wrapf(err1, "cannot set field %s value", envKey)
FieldError(envKey, err1) == [kind |-> "field", key |-> envKey, chain |-> err1]

Absent == [exist |-> FALSE, val |-> <<>>]

Present(text) == [exist |-> TRUE, val |-> text]

NumPresent == Cardinality({ k \in DOMAIN env : env[k].exist })

\* os.LookupEnv: the results the environment may give for a key.  A key read
\* before gives what it gave; a key read for the first time is absent or
\* holds one of the texts.
LookupEnv(envKey, tf) ==
    IF envKey \in DOMAIN env THEN { env[envKey] }
    ELSE { Absent } \cup
         (IF NumPresent < MaxPresent
          THEN { Present(text) : text \in TextsFor(tf) }
          ELSE {})

\* The record a frame works on lives in the caller's record (owner 0) or in
\* the record a frame allocated (reflect.New in setStructVal).
ObjOf(owner) == IF owner = 0 THEN rec ELSE stack[owner].obj

Frame(fields, prefix, needSet, obj, owner, path, fpath) ==
    [fields |-> fields, i |-> 1, prefix |-> prefix, found |-> FALSE,
     needSet |-> needSet, obj |-> obj, owner |-> owner, path |-> path,
     fpath |-> fpath]

\* reflect.Value.Kind of the argument of Load.
TargetKind(tg) ==
    IF tg \in {"ptrStruct", "nilPtr", "ptrInt"} THEN "ptr"
    ELSE IF tg = "struct" THEN "struct"
    ELSE "invalid"

\* reflect.Value.Kind of vPtr.Elem().
TargetElemKind(tg) ==
    IF tg = "ptrStruct" THEN "struct"
    ELSE IF tg = "ptrInt" THEN "int"
    ELSE "invalid"

\* The deferred recover that is innermost around a point of the code where a
\* panic may start: the one of loadToField is installed after buildEnvKey
\* and before setFieldVal; the one of recursiveLoadToStruct is around
\* loopOverFields, so around NumField and around buildEnvKey.
GuardOfFieldOnly(point) ==
    IF point = "setFieldVal" THEN "loadToField" ELSE "none"

GuardOf(point) ==
    IF point = "setFieldVal" THEN "loadToField" ELSE "recursiveLoadToStruct"

\* Where the call is after a panic at a point: in the state next if a
\* deferred function recovers it, else crashed.
AfterFault(point, next) == IF GuardOf(point) = "none" THEN "crashed" ELSE next

\* The error after a panic at a point: e, built by the deferred function that
\* recovers it.
Recovered(point, e) == IF GuardOf(point) = "none" THEN NoErr ELSE e

Fault(point, fpath) == [point |-> point, fpath |-> fpath]

\* The type of the argument of Load.
TargetType(tg) ==
    IF tg = "ptrInt" THEN TypeOf(1, "int", 64, <<>>) ELSE TypeOf(1, "struct", 0, typ)

\* recursiveLoadToStruct without the test for a pointer: a record passed by
\* value is walked.
recursiveLoadToStructNoPtrTest(tg) ==
    IF tg \in {"ptrStruct", "struct"} THEN "loop" ELSE "panic"

\* The start of recursiveLoadToStruct: it rejects what is no pointer; NumField
\* in loopOverFields panics on what is no struct, and the deferred recover
\* turns the panic into an error; otherwise the fields are walked.
recursiveLoadToStruct(tg) ==
    IF TargetKind(tg) /= "ptr" THEN "usage"
    ELSE IF TargetElemKind(tg) /= "struct" THEN "panic"
    ELSE "loop"

\* What loadToField returns and leaves behind, given the key kb it built and
\* the result sr of setFieldVal: "panic" (recovered by the deferred
\* function), "error", "set", "struct" (setStructVal is called next) or
\* "skip".
loadToFieldOutcome(tf, look, kb, sr) ==
    [key     |-> kb.key,
     nPrefix |-> kb.keys,
     via     |-> sr.via,
     set     |-> sr.set /\ ~IsPanic(sr.err),
     cause   |-> sr.err,
     val     |-> sr.val,
     outcome |-> IF look.exist /\ IsPanic(sr.err) THEN "panic"
                 ELSE IF look.exist /\ sr.err /= NoCause THEN "error"
                 ELSE IF look.exist /\ sr.set THEN "set"
                 ELSE IF tf.kind = "struct" THEN "struct"
                 ELSE "skip"]

\* loadToField up to setStructVal: the key, and the lookup result applied
\* through setFieldVal when the key is present.
loadToField(c, tf, vf, prefix, look, decRes) ==
    loadToFieldOutcome(tf, look, buildEnvKey(c, tf, prefix),
                       IF look.exist
                       THEN setFieldVal(c, tf, vf, look.val, decRes)
                       ELSE SetResult(FALSE, NoCause, vf, "absent"))

\* setStructVal before its recursive call: a nil pointer gets a fresh record
\* ("fresh"), a struct held directly is bound in place ("inplace"); for a
\* pointer that is not nil vf.Addr() is a pointer to the pointer, on which
\* NumField panics ("panic"), as it does on what a pointer to a pointer
\* leads to, nil or not.
setStructVal(tf, vf) ==
    IF tf.ptr /\ ~tf.deep /\ vf.nil THEN "fresh"
    ELSE IF tf.ptr THEN "panic"
    ELSE "inplace"

\* setsPointer without the test of found.
setsPointerAlways(errv, fnd, needSet) == errv = NoErr /\ needSet

\* setsPointer without the test of the error.
setsPointerOnError(errv, fnd, needSet) == fnd /\ needSet

\* setStructVal after its recursive call: the pointer it allocated is set when
\* the call returned no error and found something.
setsPointer(errv, fnd, needSet) == errv = NoErr /\ fnd /\ needSet

\* loopOverFields that goes on to the next field whatever loadToField
\* returned.
loopOverFieldsNeverStops(e) == FALSE

\* loopOverFields returns at the first error loadToField returns.
loopOverFieldsStops(e) == e /= NoErr

\* Nothing of package configtype is called on its own.
NoLibrary ==
    /\ recv = [type |-> "none"]
    /\ files = <<>>
    /\ osEnv = <<>>
    /\ ret = [op |-> "none"]

(***************************************************************************)
(* Init: a constructed Loader, a record of one of the types, nothing       *)
(* called yet.                                                             *)
(***************************************************************************)
Init ==
    /\ loader \in Loaders
    /\ target \in Targets
    /\ typ \in Shapes
    /\ IF target \in {"ptrStruct", "struct"}
       THEN rec \in InitialRecords(typ)
       ELSE /\ typ = BasicConfig
            /\ rec = IF target = "ptrInt" THEN 0 ELSE NilPtr
    /\ rec0 = rec
    /\ env = <<>>
    /\ stack = <<>>
    /\ lookups = <<>>
    /\ pc = "idle"
    /\ err = NoErr
    /\ found = FALSE
    /\ faults = <<>>
    /\ arrays = <<>>
    /\ other = NoCall
    /\ NoLibrary

(***************************************************************************)
(* Load: the call c.Load(s) up to the first field.                         *)
(***************************************************************************)
Load ==
    /\ pc = "idle"
    /\ LET start == recursiveLoadToStruct(target)
       IN  IF start = "usage"
           THEN /\ err' = UsageError
                /\ pc' = "done"
                /\ stack' = stack
                /\ faults' = faults
           ELSE IF start = "panic"
           THEN /\ err' = Recovered("NumField",
                              PanicError(loader, <<>>,
                                         "reflect: call of reflect.Value.NumField",
                                         TargetType(target)))
                /\ pc' = AfterFault("NumField", "done")
                /\ stack' = stack
                /\ faults' = Append(faults, Fault("NumField", <<>>))
           ELSE /\ err' = err
                /\ pc' = "walk"
                /\ stack' = << Frame(typ, NilSlice, FALSE, <<>>, 0, <<>>, <<>>) >>
                /\ faults' = faults
    /\ UNCHANGED <<loader, typ, target, rec, rec0, env, lookups, found, arrays, other>>
    /\ UNCHANGED libvars

(***************************************************************************)
(* LoadToField: one iteration of loopOverFields, the call of loadToField   *)
(* for the next field of the record on top of the stack, up to the         *)
(* recursive call of setStructVal; r is what loadToField computed.         *)
(***************************************************************************)
FieldStep(k, f, tf, vf, look, r) ==
    LET at   == Append(f.path, f.i)
        \* the field after setFieldVal
        rec1 == IF f.owner = 0 THEN SetAt(rec, at, r.val) ELSE rec
        stk1 == IF f.owner = 0 THEN stack
                ELSE [stack EXCEPT ![f.owner].obj = SetAt(@, at, r.val)]
        sv   == IF r.outcome = "struct" THEN setStructVal(tf, r.val) ELSE "none"
        next == [stk1 EXCEPT ![k].i = f.i + 1]
        \* the slice buildEnvKey returned
        keys == parentKeysAfter(arrays, f.prefix, r.nPrefix)
    IN  /\ arrays' = keys.heap
        /\ env' = IF look.exist \/ r.key \notin DOMAIN env
                  THEN (r.key :> look) @@ env
                  ELSE env
        /\ loader' = LoaderAfter(loader, r.key)
        /\ rec' = rec1
        /\ lookups' = Append(lookups,
               [fpath |-> Append(f.fpath, f.i), tf |-> tf, key |-> r.key,
                parent |-> Elems(arrays, f.prefix), nPrefix |-> r.nPrefix,
                exist |-> look.exist, text |-> look.val, via |-> r.via,
                set |-> r.set, cause |-> r.cause, before |-> vf,
                val |-> r.val, outcome |-> r.outcome, struct |-> sv])
        /\ IF r.outcome = "panic"
           THEN /\ err' = Recovered("setFieldVal",
                              PanicError(loader, r.nPrefix, r.cause[2],
                                         TypeOf(0, tf.kind, tf.bits, tf.fields)))
                /\ pc' = AfterFault("setFieldVal", pc)
                /\ stack' = stk1
                /\ faults' = Append(faults, Fault("setFieldVal", Append(f.fpath, f.i)))
           ELSE IF r.outcome = "error"
           THEN /\ err' = FieldError(r.key, r.cause)
                /\ stack' = stk1
                /\ UNCHANGED <<pc, faults>>
           ELSE IF r.outcome = "set"
           THEN /\ err' = err
                /\ stack' = [next EXCEPT ![k].found = TRUE]
                /\ UNCHANGED <<pc, faults>>
           ELSE IF sv = "fresh"
           THEN /\ err' = err
                /\ stack' = Append(stk1,
                       Frame(tf.fields, keys.slice, TRUE, ZeroStruct(tf.fields),
                             k + 1, <<>>, Append(f.fpath, f.i)))
                /\ UNCHANGED <<pc, faults>>
           ELSE IF sv = "inplace"
           THEN /\ err' = err
                /\ stack' = Append(stk1,
                       Frame(tf.fields, keys.slice, FALSE, <<>>,
                             f.owner, at, Append(f.fpath, f.i)))
                /\ UNCHANGED <<pc, faults>>
           ELSE IF sv = "panic"
           THEN /\ err' = Recovered("NumField",
                              PanicError(loader, r.nPrefix,
                                         "reflect: call of reflect.Value.NumField",
                                         TypeOf(IF tf.deep /\ ~r.val.nil THEN 3 ELSE 2,
                                                "struct", 0, tf.fields)))
                /\ pc' = AfterFault("NumField", pc)
                /\ stack' = stk1
                /\ faults' = Append(faults, Fault("NumField", Append(f.fpath, f.i)))
           ELSE /\ err' = err
                /\ stack' = next
                /\ UNCHANGED <<pc, faults>>

LoadToField ==
    /\ pc = "walk"
    /\ ~loopOverFieldsStops(err)
    /\ LET k  == Len(stack)
           f  == stack[k]
       IN  /\ f.i <= Len(f.fields)
           /\ LET tf == f.fields[f.i]
                  vf == GetAt(ObjOf(f.owner), Append(f.path, f.i))
              IN  IF ~tf.exported
                  THEN /\ stack' = [stack EXCEPT ![k].i = f.i + 1]
                       /\ UNCHANGED <<rec, env, lookups, err, pc, faults, loader, arrays>>
                  ELSE IF getFieldNamePanics(loader, tf)
                  THEN /\ err' = Recovered("buildEnvKey",
                                     PanicError(loader, Elems(arrays, f.prefix), "fieldNameTransformer",
                                                TypeOf(1, "struct", 0, f.fields)))
                       /\ pc' = AfterFault("buildEnvKey", pc)
                       /\ faults' = Append(faults, Fault("buildEnvKey", Append(f.fpath, f.i)))
                       /\ UNCHANGED <<rec, env, lookups, stack, loader, arrays>>
                  ELSE \E look \in LookupEnv(buildEnvKey(loader, tf, Elems(arrays, f.prefix)).key, tf) :
                       \E decRes \in IF tf.dec /\ look.exist THEN DecodeOutcomes ELSE {"ok"} :
                           FieldStep(k, f, tf, vf, look,
                               loadToField(loader, tf, vf, Elems(arrays, f.prefix), look, decRes))
    /\ UNCHANGED <<typ, target, rec0, found, other>>
    /\ UNCHANGED libvars

(***************************************************************************)
(* Return: loopOverFields ends, by its last field or by an error, and      *)
(* recursiveLoadToStruct returns to setStructVal, which sets the pointer   *)
(* it allocated when something was found and no error came back, and       *)
(* returns to the loop of the record above; the root call returns to Load. *)
(***************************************************************************)
Return ==
    /\ pc = "walk"
    /\ LET k == Len(stack)
           f == stack[k]
       IN  /\ f.i > Len(f.fields) \/ loopOverFieldsStops(err)
           /\ IF k = 1
              THEN /\ pc' = "done"
                   /\ found' = (err = NoErr /\ f.found)
                   /\ stack' = <<>>
                   /\ rec' = rec
              ELSE LET p    == stack[k - 1]
                       at   == Append(p.path, p.i)
                       set  == setsPointer(err, f.found, f.needSet)
                       stk1 == SubSeq(stack, 1, k - 1)
                       stk2 == IF set /\ p.owner /= 0
                               THEN [stk1 EXCEPT ![p.owner].obj = SetAt(@, at, Ptr(f.obj))]
                               ELSE stk1
                   IN  /\ pc' = pc
                       /\ found' = found
                       /\ rec' = IF set /\ p.owner = 0
                                 THEN SetAt(rec, at, Ptr(f.obj))
                                 ELSE rec
                       /\ stack' = IF err /= NoErr THEN stk2
                                   ELSE [stk2 EXCEPT ![k - 1].i = p.i + 1,
                                                     ![k - 1].found = p.found \/ f.found]
    /\ UNCHANGED <<loader, typ, target, rec0, env, lookups, err, faults, arrays, other>>
    /\ UNCHANGED libvars

Next == Load \/ LoadToField \/ Return

Spec == Init /\ [][Next]_vars

(***************************************************************************)
(* Two calls of Load on one Loader, each with its own record, taking their *)
(* steps in any order.  The variables of a call are those above while it   *)
(* takes steps and the fields of other while the second call does.         *)
(***************************************************************************)
Call(id, t, tg, r, r0, stk, lks, p, e, fnd, fts, arrs) ==
    [id |-> id, typ |-> t, target |-> tg, rec |-> r, rec0 |-> r0, stack |-> stk,
     lookups |-> lks, pc |-> p, err |-> e, found |-> fnd, faults |-> fts,
     arrays |-> arrs]

\* The Loaders and record types of the two calls.
ConcLoaders == { New(<<>>), New(<<WithPrefix(APP), WithSeparator(<<".">>)>>) }

ConcShapes == { PointerConfig, NestedConfig }

InitConc ==
    /\ loader \in ConcLoaders
    /\ target = "ptrStruct"
    /\ typ \in ConcShapes
    /\ rec \in InitialRecords(typ)
    /\ rec0 = rec
    /\ env = <<>>
    /\ stack = <<>>
    /\ lookups = <<>>
    /\ pc = "idle"
    /\ err = NoErr
    /\ found = FALSE
    /\ faults = <<>>
    /\ arrays = <<>>
    /\ \E t2 \in ConcShapes :
          other = Call(2, t2, "ptrStruct", ZeroStruct(t2), ZeroStruct(t2),
                       <<>>, <<>>, "idle", NoErr, FALSE, <<>>, <<>>)
    /\ NoLibrary

\* The scheduler runs the other call.
Switch ==
    /\ other.id /= 0
    /\ other' = Call(3 - other.id, typ, target, rec, rec0, stack, lookups, pc,
                     err, found, faults, arrays)
    /\ typ' = other.typ
    /\ target' = other.target
    /\ rec' = other.rec
    /\ rec0' = other.rec0
    /\ stack' = other.stack
    /\ lookups' = other.lookups
    /\ pc' = other.pc
    /\ err' = other.err
    /\ found' = other.found
    /\ faults' = other.faults
    /\ arrays' = other.arrays
    /\ UNCHANGED <<loader, env>>
    /\ UNCHANGED libvars

NextConc == Load \/ LoadToField \/ Return \/ Switch

SpecConc == InitConc /\ [][NextConc]_vars

(***************************************************************************)
(* Load called again on the record a first call has returned from, with    *)
(* the same Loader and the environment as the first call read it.          *)
(***************************************************************************)
InitAgain ==
    /\ Init
    /\ target = "ptrStruct"

\* The caller, back from c.Load(s), calls c.Load(s) once more; other keeps
\* what the first call returned and did.
LoadAgain ==
    /\ pc = "done"
    /\ other = NoCall
    /\ other' = Call(1, typ, target, rec, rec0, stack, lookups, pc, err, found,
                     faults, arrays)
    /\ pc' = "idle"
    /\ rec0' = rec
    /\ stack' = <<>>
    /\ lookups' = <<>>
    /\ err' = NoErr
    /\ found' = FALSE
    /\ faults' = <<>>
    /\ arrays' = <<>>
    /\ UNCHANGED <<loader, typ, target, rec, env>>
    /\ UNCHANGED libvars

NextAgain == Load \/ LoadToField \/ Return \/ LoadAgain

SpecAgain == InitAgain /\ [][NextAgain]_vars

(***************************************************************************)
(* Package os, as package configtype uses it: ExpandEnv over an            *)
(* environment e (a function from names to texts; Getenv of a name that    *)
(* is not set is the empty text) and ReadFile over the files fs (a         *)
(* function from the paths that exist to their contents).                  *)
(***************************************************************************)
isShellSpecialVar(c) == c \in {"*", "#", "$", "@", "!", "?", "-"} \/ IsDigit(c)

isAlphaNum(c) == c = "_" \/ IsDigit(c) \/ IsLetter(c)

\* getShellName(s), s not empty: the name that begins s and how many
\* characters it takes.
getShellName(s) ==
    IF s[1] = "{"
    THEN IF Len(s) > 2 /\ isShellSpecialVar(s[2]) /\ s[3] = "}"
         THEN [name |-> <<s[2]>>, w |-> 3]
         ELSE LET close == { i \in 2..Len(s) : s[i] = "}" }
              IN  IF close = {} THEN [name |-> <<>>, w |-> 1]
                  ELSE IF 2 \in close THEN [name |-> <<>>, w |-> 2]
                  ELSE [name |-> SubSeq(s, 2, (CHOOSE i \in close : \A j \in close : i <= j) - 1),
                        w |-> CHOOSE i \in close : \A j \in close : i <= j]
    ELSE IF isShellSpecialVar(s[1]) THEN [name |-> <<s[1]>>, w |-> 1]
    ELSE LET stop == { i \in 1..Len(s) : ~isAlphaNum(s[i]) }
             n == IF stop = {} THEN Len(s)
                  ELSE (CHOOSE i \in stop : \A j \in stop : i <= j) - 1
         IN  [name |-> SubSeq(s, 1, n), w |-> n]

Getenv(e, name) == IF name \in DOMAIN e THEN e[name] ELSE <<>>

\* What os.Expand puts for the reference whose name getShellName found.
ExpandName(e, g) ==
    IF g.name = <<>> /\ g.w > 0 THEN <<>>
    ELSE IF g.name = <<>> THEN <<"$">>
    ELSE Getenv(e, g.name)

RECURSIVE Expand(_, _, _)
\* os.Expand from position j of s on.
Expand(e, s, j) ==
    IF j > Len(s) THEN <<>>
    ELSE IF s[j] = "$" /\ j < Len(s)
    THEN ExpandName(e, getShellName(SubSeq(s, j + 1, Len(s))))
         \o Expand(e, s, j + getShellName(SubSeq(s, j + 1, Len(s))).w + 1)
    ELSE <<s[j]>> \o Expand(e, s, j + 1)

ExpandEnv(e, s) == Expand(e, s, 1)

ReadFile(fs, name) ==
    IF name \in DOMAIN fs THEN [ok |-> TRUE, data |-> fs[name]]
    ELSE [ok |-> FALSE, data |-> <<>>]

(***************************************************************************)
(* The decoders behind JSONFile, YAMLFile and TOMLFile (json.Unmarshal,    *)
(* yaml.Unmarshal, toml.Decode) for a payload type with the two text       *)
(* fields h and p.  The three syntaxes are written as one: entries         *)
(* key:value separated by commas.  A decoder reads the whole text before   *)
(* it stores anything, stores the keys the text has into the payload it    *)
(* is given and leaves the other fields of that payload as they are; an    *)
(* empty text is an error for JSON and an empty document for the others.   *)
(***************************************************************************)
PayloadKeys == {"h", "p"}

ZeroPayload == [k \in PayloadKeys |-> <<>>]

EntryOk(part) == Len(part) >= 2 /\ part[2] = ":"

\* The last entry of the text that sets key k, 0 if none.
LastEntry(parts, k) ==
    LET at == { i \in 1..Len(parts) : parts[i][1] = k }
    IN  IF at = {} THEN 0 ELSE CHOOSE i \in at : \A j \in at : j <= i

\* A decoder that emptied the fields the text does not set.
UntouchedZeroed(data, k) == <<>>

\* The field of the payload for a key the text does not set: the decoders
\* store into the payload they are given and do not clear it first.
Untouched(data, k) == data[k]

Decode(format, text, data) ==
    IF text = <<>>
    THEN [ok |-> format /= "JSONFile", data |-> data]
    ELSE IF \E i \in 1..Len(stringsSplit(text, <<",">>)) :
                ~EntryOk(stringsSplit(text, <<",">>)[i])
    THEN [ok |-> FALSE, data |-> data]
    ELSE [ok |-> TRUE,
          data |-> [k \in PayloadKeys |->
                      IF LastEntry(stringsSplit(text, <<",">>), k) = 0
                      THEN Untouched(data, k)
                      ELSE SubSeq(stringsSplit(text, <<",">>)
                                      [LastEntry(stringsSplit(text, <<",">>), k)],
                                  3,
                                  Len(stringsSplit(text, <<",">>)
                                      [LastEntry(stringsSplit(text, <<",">>), k)]))]]

(***************************************************************************)
(* package configtype: JSONFile, YAMLFile, TOMLFile.  A wrapper is         *)
(* [type, FilePath, Data, value]; a call returns the wrapper after it,     *)
(* its error and the steps it took, in order.                              *)
(***************************************************************************)
FileTypes == {"JSONFile", "YAMLFile", "TOMLFile"}

File(type, path, data) == [type |-> type, FilePath |-> path, Data |-> data, value |-> <<>>]

NoLibErr == [msg |-> "", path |-> <<>>]

\* errors.Wrapf(err, "...: %s", path)
LibErr(msg, path) == [msg |-> msg, path |-> path]

Step(what, text) == [what |-> what, text |-> text]

Returned(w, e, steps) == [recv |-> w, err |-> e, steps |-> steps]

ReadMsg(type) ==
    IF type = "JSONFile" THEN "cannot load json file"
    ELSE IF type = "YAMLFile" THEN "failed to read YAML file"
    ELSE "failed to read TOML file"

ParseMsg(type) ==
    IF type = "JSONFile" THEN "failed to unmarshal json config"
    ELSE IF type = "YAMLFile" THEN "failed to parse YAML file"
    ELSE "failed to parse TOML file"

\* The end of a parse function, from os.ReadFile(path) on; steps are the
\* steps taken before it.
readAndParse(w, fs, e, path, steps) ==
    IF ~ReadFile(fs, path).ok
    THEN Returned(w, LibErr(ReadMsg(w.type), path),
                  steps \o <<Step("ReadFile", path)>>)
    ELSE IF ~Decode(w.type, ExpandEnv(e, ReadFile(fs, path).data), w.Data).ok
    THEN Returned(w, LibErr(ParseMsg(w.type), path),
                  steps \o <<Step("ReadFile", path),
                             Step("ExpandEnv", ReadFile(fs, path).data),
                             Step("Unmarshal", ExpandEnv(e, ReadFile(fs, path).data))>>)
    ELSE Returned([w EXCEPT !.Data = Decode(w.type, ExpandEnv(e, ReadFile(fs, path).data),
                                            w.Data).data],
                  NoLibErr,
                  steps \o <<Step("ReadFile", path),
                             Step("ExpandEnv", ReadFile(fs, path).data),
                             Step("Unmarshal", ExpandEnv(e, ReadFile(fs, path).data))>>)

\* parseJSONFile: the path is read as it is stored.
parseJSONFile(w, fs, e, steps) == readAndParse(w, fs, e, w.FilePath, steps)

\* parseYAMLFile and parseTOMLFile: nothing for an empty path, else the
\* path is expanded and the expanded path is read.
parseFile(w, fs, e, steps) ==
    IF w.type = "JSONFile" THEN parseJSONFile(w, fs, e, steps)
    ELSE IF w.FilePath = <<>> THEN Returned(w, NoLibErr, steps)
    ELSE readAndParse(w, fs, e, ExpandEnv(e, w.FilePath),
                      Append(steps, Step("ExpandEnv", w.FilePath)))

\* UnmarshalText of the three wrappers.
fileUnmarshalText(w, data, fs, e) ==
    IF Len(data) = 0 THEN Returned(w, NoLibErr, <<>>)
    ELSE parseFile([w EXCEPT !.FilePath = data], fs, e, <<Step("FilePath", data)>>)

\* Reload of the three wrappers; JSONFile tests the path itself.
fileReload(w, fs, e) ==
    IF w.type = "JSONFile" /\ w.FilePath = <<>> THEN Returned(w, NoLibErr, <<>>)
    ELSE parseFile(w, fs, e, <<>>)

(***************************************************************************)
(* package configtype: Base64, over base64.StdEncoding.  The value is a    *)
(* sequence of bytes.                                                      *)
(***************************************************************************)
encodeStd == UpperLetters \o LowerLetters \o DigitChars \o <<"+", "/">>

IsB64(c) == \E i \in 1..64 : encodeStd[i] = c

\* decodeMap of the encoding, for a character of its alphabet.
decodeMap(c) == (CHOOSE i \in 1..64 : encodeStd[i] = c) - 1

\* The characters decodeQuantum skips wherever they are.
IsNewline(c) == c \in {"\n", "\r"}

\* The bytes of one quantum of four 6-bit values.
QuantumBytes(d1, d2, d3, d4) ==
    << (d1 * 262144 + d2 * 4096 + d3 * 64 + d4) \div 65536,
       ((d1 * 262144 + d2 * 4096 + d3 * 64 + d4) \div 256) % 256,
       (d1 * 262144 + d2 * 4096 + d3 * 64 + d4) % 256 >>

\* decodeQuantum on the four characters from i of a text t without
\* newlines: the bytes, or <<-1>> for CorruptInputError.  Padding is
\* required, ends the text, and the bits under it are not tested.
decodeQuantum(t, i) ==
    IF Len(t) - i + 1 < 4 THEN <<-1>>
    ELSE IF ~IsB64(t[i]) \/ ~IsB64(t[i + 1]) THEN <<-1>>
    ELSE IF IsB64(t[i + 2]) /\ IsB64(t[i + 3])
    THEN QuantumBytes(decodeMap(t[i]), decodeMap(t[i + 1]),
                      decodeMap(t[i + 2]), decodeMap(t[i + 3]))
    ELSE IF IsB64(t[i + 2]) /\ t[i + 3] = "=" /\ i + 3 = Len(t)
    THEN SubSeq(QuantumBytes(decodeMap(t[i]), decodeMap(t[i + 1]),
                             decodeMap(t[i + 2]), 0), 1, 2)
    ELSE IF t[i + 2] = "=" /\ t[i + 3] = "=" /\ i + 3 = Len(t)
    THEN SubSeq(QuantumBytes(decodeMap(t[i]), decodeMap(t[i + 1]), 0, 0), 1, 1)
    ELSE <<-1>>

RECURSIVE DecodeQuanta(_, _)
\* The loop of Encoding.Decode from position i on.
DecodeQuanta(t, i) ==
    IF i > Len(t) THEN [ok |-> TRUE, val |-> <<>>]
    ELSE IF decodeQuantum(t, i) = <<-1>> THEN [ok |-> FALSE, val |-> <<>>]
    ELSE IF ~DecodeQuanta(t, i + 4).ok THEN [ok |-> FALSE, val |-> <<>>]
    ELSE [ok |-> TRUE, val |-> decodeQuantum(t, i) \o DecodeQuanta(t, i + 4).val]

\* DecodeString, were it to take the text that has lost its padding.
DecodeStringUnpadded(s) ==
    IF Len(s) % 4 = 2 THEN DecodeQuanta(s \o <<"=", "=">>, 1)
    ELSE IF Len(s) % 4 = 3 THEN DecodeQuanta(s \o <<"=">>, 1)
    ELSE DecodeQuanta(SelectSeq(s, LAMBDA c : ~IsNewline(c)), 1)

\* base64.StdEncoding.DecodeString
DecodeString(s) == DecodeQuanta(SelectSeq(s, LAMBDA c : ~IsNewline(c)), 1)

Base64(bytes) == [type |-> "Base64", FilePath |-> <<>>, Data |-> ZeroPayload, value |-> bytes]

\* UnmarshalText of Base64.
base64UnmarshalText(b, data) ==
    IF Len(data) = 0 THEN Returned(b, NoLibErr, <<>>)
    ELSE IF ~DecodeString(data).ok
    THEN Returned(b, LibErr("failed to decode base64 string", <<>>), <<>>)
    ELSE Returned([b EXCEPT !.value = DecodeString(data).val], NoLibErr, <<>>)

(***************************************************************************)
(* The inputs of package configtype and of the naming strategies.          *)
(***************************************************************************)
MaxB64Len == 4

MaxIdentLen == 4

\* The texts of length up to n over the characters cs.
TextsUpTo(cs, n) == UNION { [1..k -> cs] : k \in 0..n }

\* The file the wrappers are pointed at, named directly and through $D,
\* and the spelling os.ExpandEnv also takes.
DiskPath == <<"d", "/", "a">>

RefPath == <<"$", "D", "/", "a">>

BracePath == <<"$", "{", "D", "}", "/", "a">>

\* A path nothing is at.
NoPath == <<"b">>

PathTexts == { <<>>, DiskPath, RefPath, BracePath, NoPath }

\* What the file holds: both keys, one key, a reference to $V, a text no
\* decoder takes, nothing.
Contents ==
    { <<"h", ":", "a", ",", "p", ":", "b">>,
      <<"h", ":", "c">>,
      <<"h", ":", "$", "V">>,
      <<"h">>,
      <<>> }

\* The files at the start: the file may be missing, and there may be a
\* file whose name is the text $D/a itself.
FileSystems ==
    { <<>> }
    \cup { [p \in {DiskPath} |-> c] : c \in Contents }
    \cup { [p \in {DiskPath, RefPath} |-> <<"h", ":", "r">>] }

Environments ==
    { [n \in {<<"D">>, <<"V">>} |-> IF n = <<"D">> THEN d ELSE <<"x">>] :
        d \in {<<>>, <<"d">>} }

OldPayload == [k \in PayloadKeys |-> <<"o">>]

FileWrappers ==
    { File(t, p, d) : t \in FileTypes, p \in {<<>>, DiskPath},
                      d \in {ZeroPayload, OldPayload} }

B64Chars == {"Q", "/", "=", "\n", "!"}

\* The texts Base64 is given: "test" encoded, with its padding, with half
\* of it and without it, and every short text.
B64Texts ==
    TextsUpTo(B64Chars, MaxB64Len)
    \cup { <<"d","G","V","z","d","A","=","=">>, <<"d","G","V","z","d","A","=">>,
           <<"d","G","V","z","d","A">> }

\* A Base64 that was never set, and one the caller set to "o".
Base64Values == { Base64(<<>>), Base64(<<111>>) }

\* The variable the Base64 field is bound to.
SecretName == <<"S">>

IdentChars == {"A", "B", "c", "d", "_", "1"}

\* The field names the naming strategies are given.
Identifiers ==
    TextsUpTo(IdentChars, MaxIdentLen)
    \cup { <<"D","B","C","o","n","n","e","c","t","i","o","n">>,
           <<"A","K","e","y">>, <<"K","e","y","A">>,
           <<"T","h","i","s","I","S","M","y","K","e","y">>,
           <<"T","i","m","e","o","u","t">> }

LibLoaders ==
    { New(<<>>), New(<<WithKeyTransformer("VoidTransformer")>>),
      New(<<WithKeyTransformer("strings.ToLower")>>) }

\* The Loader as the value the naming strategy is called through.
NamingOf == [type |-> "Loader", FilePath |-> <<>>, Data |-> ZeroPayload, value |-> <<>>]

Ret(op, arg, e, steps, out) ==
    [op |-> op, arg |-> arg, err |-> e, steps |-> steps, out |-> out]

(***************************************************************************)
(* The calls of package configtype and of the naming strategy, made on     *)
(* one value: a file wrapper with its files and environment, a Base64, or  *)
(* a Loader.  Load is not called.                                          *)
(***************************************************************************)
InitLib ==
    /\ target = "ptrStruct"
    /\ env = <<>>
    /\ stack = <<>>
    /\ lookups = <<>>
    /\ pc = "library"
    /\ err = NoErr
    /\ found = FALSE
    /\ faults = <<>>
    /\ arrays = <<>>
    /\ other = NoCall
    /\ ret = [op |-> "none"]
    /\ \/ /\ recv \in FileWrappers
          /\ files \in FileSystems
          /\ osEnv \in Environments
          /\ loader = New(<<>>)
          /\ typ = BasicConfig
       \/ /\ recv \in Base64Values
          /\ files = <<>>
          /\ osEnv \in { [n \in {SecretName} |-> t] : t \in B64Texts }
          /\ loader = New(<<>>)
          /\ typ = BasicConfig
       \/ /\ recv = NamingOf
          /\ files = <<>>
          /\ osEnv = <<>>
          /\ loader \in LibLoaders
          /\ typ \in { << Field(name, "string", 0) >> : name \in Identifiers }
    /\ rec = ZeroStruct(typ)
    /\ rec0 = rec

corevars == <<loader, typ, target, rec, rec0, env, stack, lookups, pc, err, found,
              faults, arrays, other>>

\* f.UnmarshalText(data) on a file wrapper.
FileUnmarshalText ==
    /\ recv.type \in FileTypes
    /\ \E data \in PathTexts :
          /\ recv' = fileUnmarshalText(recv, data, files, osEnv).recv
          /\ ret' = Ret("UnmarshalText", data,
                        fileUnmarshalText(recv, data, files, osEnv).err,
                        fileUnmarshalText(recv, data, files, osEnv).steps, <<>>)
    /\ UNCHANGED <<files, osEnv>>
    /\ UNCHANGED corevars

\* f.Reload() on a file wrapper.
FileReload ==
    /\ recv.type \in FileTypes
    /\ recv' = fileReload(recv, files, osEnv).recv
    /\ ret' = Ret("Reload", <<>>, fileReload(recv, files, osEnv).err,
                  fileReload(recv, files, osEnv).steps, <<>>)
    /\ UNCHANGED <<files, osEnv>>
    /\ UNCHANGED corevars

\* The file is written by whoever maintains it.
WriteFile ==
    /\ recv.type \in FileTypes
    /\ \E c \in Contents :
          /\ files' = [p \in DOMAIN files \cup {DiskPath} |->
                          IF p = DiskPath THEN c ELSE files[p]]
          /\ ret' = Ret("WriteFile", c, NoLibErr, <<>>, <<>>)
    /\ UNCHANGED <<recv, osEnv>>
    /\ UNCHANGED corevars

\* b.UnmarshalText(data) on a Base64, data being what the variable
\* SecretName holds.
Base64UnmarshalText ==
    /\ recv.type = "Base64"
    /\ recv' = base64UnmarshalText(recv, Getenv(osEnv, SecretName)).recv
    /\ ret' = Ret("UnmarshalText", Getenv(osEnv, SecretName),
                  base64UnmarshalText(recv, Getenv(osEnv, SecretName)).err, <<>>, <<>>)
    /\ UNCHANGED <<files, osEnv>>
    /\ UNCHANGED corevars

\* getFieldName of the Loader on the field of the record type, which has
\* no tags, and the key buildEnvKey hands to os.LookupEnv for it at the root.
GetFieldName ==
    /\ recv.type = "Loader"
    /\ ret' = Ret("getFieldName", typ[1].name, NoLibErr,
                  <<Step("LookupEnv", buildEnvKey(loader, typ[1], <<>>).key)>>,
                  getFieldName(loader, typ[1]).name)
    /\ UNCHANGED <<recv, files, osEnv>>
    /\ UNCHANGED corevars

NextLib ==
    FileUnmarshalText \/ FileReload \/ WriteFile \/ Base64UnmarshalText \/ GetFieldName

SpecLib == InitLib /\ [][NextLib]_vars

(***************************************************************************)
(* Properties.                                                             *)
(*                                                                         *)
(* The operators of this part state what is expected of the Loader; they   *)
(* use the standard library (strings.Join, the transformers) and the       *)
(* record of what each loadToField call did, never buildEnvKey,            *)
(* setFieldVal or the other operators that model the Loader.               *)
(***************************************************************************)
Done == pc = "done"

Lookups == { lookups[i] : i \in 1..Len(lookups) }

\* p is a proper prefix of q.
IsProperPrefix(p, q) == Len(p) < Len(q) /\ SubSeq(q, 1, Len(p)) = p

\* The naming strategy of the Loader applied to a declared identifier.
NamingStrategy(name) ==
    IF loader.fieldNameTransformer = "UperCaseTransformer" THEN UperCaseTransformer(name)
    ELSE IF loader.fieldNameTransformer = "strings.ToLower" THEN stringsToLower(name)
    ELSE name

\* The prefix and the segments, empty ones left out, joined by the separator.
ComposedKey(segments) ==
    stringsJoin(SelectSeq(<<loader.prefix>> \o segments, LAMBDA x : x /= <<>>),
                loader.sep)

\* C1: for a field that is not embedded, the lookup key is the env tag
\* verbatim if there is one; else the alias, verbatim, composed with the
\* prefix and the parent segments; else the naming strategy's output for
\* the identifier, composed the same way.
C1_NamePrecedence ==
    \A l \in Lookups :
        ~l.tf.anon =>
            IF l.tf.env.ok THEN l.key = l.tf.env.val
            ELSE IF l.tf.alias.ok
                 THEN l.key = ComposedKey(Append(l.parent, l.tf.alias.val))
            ELSE l.key = ComposedKey(Append(l.parent, NamingStrategy(l.tf.name)))

\* A bind with prefix APP went through a field with both tags (looked up as
\* KEY), a field with an alias only and a field with no tag.
C1_Witness ==
    /\ Done
    /\ typ = ExactConfig
    /\ loader.prefix = APP
    /\ \E l \in Lookups :
          l.tf.env.ok /\ l.tf.alias.ok /\ l.exist /\ l.key = <<"K","E","Y">>
    /\ \E l \in Lookups :
          ~l.tf.env.ok /\ l.tf.alias.ok /\ l.key = <<"A","P","P","_","c","a","c","h","e">>
    /\ \E l \in Lookups : l.key = <<"A","P","P","_","C","H">>

\* The segments from the root to the field at a path, read off the record
\* type: nothing for an embedded field, else the env tag, the alias or the
\* naming strategy's output.
RECURSIVE PathSegments(_, _)
PathSegments(fields, path) ==
    IF path = <<>> THEN <<>>
    ELSE LET tf  == fields[Head(path)]
             own == IF tf.anon THEN <<>>
                    ELSE IF tf.env.ok THEN <<tf.env.val>>
                    ELSE IF tf.alias.ok THEN <<tf.alias.val>>
                    ELSE <<NamingStrategy(tf.name)>>
         IN  own \o PathSegments(tf.fields, Tail(path))

\* C2: the key of a field without env tag is the prefix, if not empty, and
\* the segments from the root to the field, empty ones skipped, joined by the
\* separator: APP.DB.HOST for DB.Host with prefix APP and separator ".",
\* APP_HOST for Host with prefix APP.
C2_KeyComposition ==
    /\ \A l \in Lookups :
          ~l.tf.env.ok \/ l.tf.anon =>
              l.key = ComposedKey(PathSegments(typ, l.fpath))
    /\ \A l \in Lookups :
          /\ typ = NestedConfig /\ l.fpath = <<2, 1>>
          /\ loader = New(<<WithPrefix(APP), WithSeparator(<<".">>)>>)
          => l.key = <<"A","P","P",".","D","B",".","H","O","S","T">>
    /\ \A l \in Lookups :
          /\ typ = DeepPointerConfig /\ l.fpath = <<3>>
          /\ loader.prefix = APP /\ loader.sep = DefaultSep
          => l.key = <<"A","P","P","_","H","O","S","T">>

\* DB.Host was found under APP.DB.HOST.
C2_Witness ==
    /\ Done
    /\ typ = NestedConfig
    /\ loader.sep = <<".">>
    /\ \E l \in Lookups :
          l.fpath = <<2, 1>> /\ l.exist /\ l.key = <<"A","P","P",".","D","B",".","H","O","S","T">>
                /\ l.outcome = "set"

\* C3 as stated: for a field with an env tag the segment stack handed to the
\* recursion into its sub-record is the parent's stack, the exact name not
\* being pushed, so the keys of the fields below do not hold the exact name.
C3_ExactNameNotPushed ==
    \A l \in Lookups :
        l.tf.env.ok /\ ~l.tf.anon =>
            \A d \in Lookups :
                d.fpath = Append(l.fpath, d.fpath[Len(d.fpath)]) =>
                    /\ d.parent = l.parent
                    /\ ~d.tf.env.ok =>
                          d.key = ComposedKey(Append(l.parent,
                                      NamingStrategy(d.tf.name)))

\* C3, amended: for a field with an env tag the segment stack handed to the
\* recursion is the parent's stack with the exact name pushed, so the exact
\* name is a segment of the keys of the fields of its sub-record.
C3_ExactNamePushed ==
    \A l \in Lookups :
        l.tf.env.ok /\ ~l.tf.anon =>
            /\ l.nPrefix = Append(l.parent, l.tf.env.val)
            /\ \A d \in Lookups :
                  d.fpath = Append(l.fpath, d.fpath[Len(d.fpath)]) =>
                      /\ d.parent = Append(l.parent, l.tf.env.val)
                      /\ ~d.tf.env.ok =>
                            d.key = ComposedKey(Append(d.parent,
                                        NamingStrategy(d.tf.name)))

\* Host of the struct tagged env:"DATABASE" was found under DATABASE_HOST.
C3_Witness ==
    /\ Done
    /\ typ = ExactConfig
    /\ \E d \in Lookups :
          d.fpath = <<1, 1>> /\ d.exist /\ d.key = <<"D","A","T","A","B","A","S","E","_","H","O","S","T">>

\* The key a field would have if it were declared on a record whose segment
\* stack is the given one.
DeclaredKey(tf, segments) ==
    IF tf.anon THEN ComposedKey(segments)
    ELSE IF tf.env.ok THEN tf.env.val
    ELSE IF tf.alias.ok THEN ComposedKey(Append(segments, tf.alias.val))
    ELSE ComposedKey(Append(segments, NamingStrategy(tf.name)))

\* C4: an embedded field adds no segment: each member of an embedded record
\* is looked up under the key it would have if declared on the embedding
\* record, at any depth.
C4_EmbeddedNoSegment ==
    \A e \in Lookups :
        e.tf.anon =>
            \A m \in Lookups :
                m.fpath = Append(e.fpath, m.fpath[Len(m.fpath)]) =>
                    /\ m.parent = e.parent
                    /\ m.key = DeclaredKey(m.tf, e.parent)
                    /\ m.key = DeclaredKey(m.tf,
                           PathSegments(typ, SubSeq(e.fpath, 1, Len(e.fpath) - 1)))

\* Host of the record embedded in DB was found under DB_HOST, and Host of the
\* record embedded at the root was looked up under HOST.
C4_Witness ==
    /\ Done
    /\ typ = EmbeddedConfig
    /\ \E m \in Lookups :
          m.fpath = <<3, 1, 1>> /\ m.exist /\ m.key = <<"D","B","_","H","O","S","T">>
    /\ \E m \in Lookups : m.fpath = <<1, 1>> /\ m.key = <<"H","O","S","T">>

\* C5: a field whose key is present and whose type decodes itself from text
\* is handed to UnmarshalText with the raw text, whatever its kind; no
\* built-in coercion runs, the field counts as handled, its record is not
\* descended into, and a decoding error fails the bind with the lookup key.
C5_DecodePrecedence ==
    \A l \in Lookups :
        l.exist /\ l.tf.dec =>
            /\ l.via = "UnmarshalText"
            /\ l.struct = "none"
            /\ \A d \in Lookups : ~IsProperPrefix(l.fpath, d.fpath)
            /\ IF l.outcome = "panic"
               THEN err.kind = "panic"
               ELSE IF l.cause = <<>>
               THEN /\ l.set
                    /\ l.outcome = "set"
                    /\ LET v == IF l.tf.ptr THEN l.val.val ELSE l.val
                       IN  IF l.tf.kind = "struct" THEN v[1] = l.text
                           ELSE v = [set |-> TRUE, text |-> l.text]
               ELSE /\ l.set
                    /\ l.outcome = "error"
                    /\ err.kind = "field"
                    /\ err.key = l.key
                    /\ err.chain = l.cause

\* A bind decoded an integer-kind field from a text that is no number and a
\* pointer to a struct-kind field, without error.
C5_Witness ==
    /\ Done
    /\ err = NoErr
    /\ typ = DecodeConfig
    /\ \E l \in Lookups :
          l.exist /\ l.tf.dec /\ l.tf.kind = "int" /\ l.text = <<"a","b","c">>
    /\ \E l \in Lookups :
          l.exist /\ l.tf.dec /\ l.tf.kind = "struct" /\ l.tf.ptr /\ ~l.val.nil

\* The value of a decimal text with an optional sign, for texts of digits.
IsDecimal(text) ==
    /\ text /= <<>>
    /\ LET body == IF text[1] \in {"+", "-"} THEN Tail(text) ELSE text
       IN  body /= <<>> /\ \A i \in 1..Len(body) : IsDigit(body[i])

DecimalOf(text) ==
    IF text[1] = "-" THEN 0 - DecValue(Tail(text))
    ELSE IF text[1] = "+" THEN DecValue(Tail(text))
    ELSE DecValue(text)

\* The value is representable in an integer field of the kind and width.
\* Every decimal text of the model is below 2^31.
Representable(x, kind, bits) ==
    IF bits >= 32 THEN kind = "int" \/ x >= 0
    ELSE IF kind = "int" THEN 0 - 2 ^ (bits - 1) <= x /\ x < 2 ^ (bits - 1)
    ELSE 0 <= x /\ x < 2 ^ bits

\* C6: an integer text outside the range of the field's width (300 for an
\* 8-bit field) makes the bind return an error, and the field never holds a
\* wrapped value.
C6_RangeChecked ==
    \A l \in Lookups :
        /\ l.exist /\ ~l.tf.dec /\ l.tf.kind \in {"int", "uint"}
        /\ IsDecimal(l.text)
        /\ ~Representable(DecimalOf(l.text), l.tf.kind, l.tf.bits)
        => /\ l.cause /= <<>>
           /\ err /= NoErr
           /\ l.val = l.before

\* The value behind a pointer field, or of a field held directly.
Deref(tf, v) == IF tf.ptr THEN v.val ELSE v

RECURSIVE Through(_, _, _)
\* The field at a path of a record, through the pointers on the way:
\* [ok, val], ok being FALSE when a pointer on the way is nil.
Through(v, fields, path) ==
    LET tf == fields[Head(path)]
        x  == v[Head(path)]
    IN  IF Len(path) = 1 THEN [ok |-> TRUE, val |-> x]
        ELSE IF tf.ptr /\ x.nil THEN [ok |-> FALSE, val |-> x]
        ELSE Through(Deref(tf, x), tf.fields, Tail(path))

\* The field at a path of the caller's record after the bind.
FinalAt(path) == Through(rec, typ, path)

\* The calls for the leaves below a field that were found and set.
FoundBelow(l) ==
    { d \in Lookups : IsProperPrefix(l.fpath, d.fpath) /\ d.outcome = "set" }

\* A pointer to a record that was nil when the bind reached it.
NilRecordPointer(l) == l.tf.kind = "struct" /\ l.tf.ptr /\ l.before.nil

\* After a bind without error the pointer field of the call is nil if
\* nothing was found below it, and else points to a record that holds what
\* was found and zero values elsewhere.
Materialised(l) ==
    LET now == FinalAt(l.fpath)
    IN  now.ok =>
            IF FoundBelow(l) = {}
            THEN now.val.nil
            ELSE /\ ~now.val.nil
                 /\ \A d \in Lookups :
                       IsProperPrefix(l.fpath, d.fpath) /\ FinalAt(d.fpath).ok =>
                           IF d.outcome = "set"
                           THEN FinalAt(d.fpath).val = d.val
                           ELSE FoundBelow(d) = {} =>
                                   FinalAt(d.fpath).val = ZeroOf(d.tf)

\* C7 as stated: after a successful bind each pointer-to-record field that
\* was nil is nil if no leaf below it was found, and else points to a record
\* with exactly the found leaves populated.
C7_PointerMaterialisedAny ==
    Done /\ err = NoErr =>
        \A l \in Lookups : NilRecordPointer(l) => Materialised(l)

\* C7, amended: the same for each pointer-to-record field that was nil and
\* was not itself decoded from its own key by its type's UnmarshalText (such
\* a field points to the decoded record although no leaf below was found).
C7_PointerMaterialised ==
    Done /\ err = NoErr =>
        \A l \in Lookups :
            NilRecordPointer(l) /\ ~(l.tf.dec /\ l.exist) => Materialised(l)

\* A bind found X below two nil pointers and nothing below another nil
\* pointer: Outer and Inner point to records, X holds the text.
C7_Witness ==
    /\ Done
    /\ err = NoErr
    /\ typ = DeepPointerConfig
    /\ rec0 = ZeroStruct(typ)
    /\ ~rec[1].nil
    /\ ~rec[1].val[1].nil
    /\ rec[1].val[1].val[1] = <<"a","b","c">>
    /\ rec[1].val[2] = 0
    /\ rec[2].nil

\* The built-in coercions: every branch of setFieldVal but UnmarshalText.
Coercions == {"bool", "duration", "int", "uint", "float", "slice", "map"}

\* C8: a coercion failure on a field whose key is present makes Load return
\* an error that names the lookup key, at every depth.
C8_CoercionErrorNamesKey ==
    \A l \in Lookups :
        l.exist /\ l.via \in Coercions /\ l.cause /= <<>> =>
            /\ err.kind = "field"
            /\ err.key = l.key
            /\ err.chain = l.cause
            /\ Done => err /= NoErr /\ ~found

\* Load returned the error of Port of the nested DB, a text that is no
\* number, naming the key DB_PORT.
C8_Witness ==
    /\ Done
    /\ typ = NestedConfig
    /\ err.kind = "field"
    /\ err.key = <<"D","B","_","P","O","R","T">>
    /\ \E l \in Lookups :
          l.fpath = <<2, 2>> /\ l.text = <<"a","b","c">> /\ l.via = "int"

\* C9 as stated: when a bind fails, every field assigned before the failing
\* one holds the assigned value after Load returns, also inside a nested
\* record held through a pointer that was nil.
C9_AssignedKept ==
    Done /\ err /= NoErr =>
        \A l \in Lookups :
            l.outcome = "set" =>
                FinalAt(l.fpath).ok /\ FinalAt(l.fpath).val = l.val

\* The calls that allocated a record for a nil pointer and whose record the
\* bind was still working on when it failed.
OpenAllocations ==
    { a \in Lookups :
        /\ a.struct = "fresh"
        /\ IsProperPrefix(a.fpath, lookups[Len(lookups)].fpath) }

\* C9, amended: when a bind fails, every field assigned before the failing
\* one holds the assigned value after Load returns, except the fields of a
\* record allocated for a nil pointer during this bind in which (at any
\* depth) the failing field lies: that record is dropped and the pointer
\* stays nil.
C9_AssignedKeptUnlessDropped ==
    Done /\ err /= NoErr =>
        /\ \A l \in Lookups :
              /\ l.outcome = "set"
              /\ \A a \in OpenAllocations : ~IsProperPrefix(a.fpath, l.fpath)
              => FinalAt(l.fpath).ok /\ FinalAt(l.fpath).val = l.val
        /\ \A a \in OpenAllocations :
              FinalAt(a.fpath).ok => FinalAt(a.fpath).val.nil

\* Load failed at Port of DB after it had set Host of Server and Host of DB,
\* both nested records held directly.
C9_Witness ==
    /\ Done
    /\ typ = NestedConfig
    /\ err.kind = "field"
    /\ \E l \in Lookups : l.fpath = <<1, 1>> /\ l.outcome = "set"
    /\ \E l \in Lookups : l.fpath = <<2, 1>> /\ l.outcome = "set"
    /\ \E l \in Lookups : l.fpath = <<2, 2>> /\ l.outcome = "error"
    /\ rec[1][1] = <<"a","b","c">>
    /\ rec[2][1] = <<"a","b","c">>

\* C10: given anything but a pointer to a record, Load returns an error,
\* reads no key, assigns nothing and leaves what it was given unchanged.
C10_UsageError ==
    Done /\ target /= "ptrStruct" =>
        /\ err /= NoErr
        /\ lookups = <<>>
        /\ DOMAIN env = {}
        /\ rec = rec0
        /\ ~found

\* Load returned for a record passed by value.
C10_Witness ==
    /\ Done
    /\ target = "struct"
    /\ err.kind = "usage"

RECURSIVE FieldAt(_, _)
\* The field declared at a path of field indices of a record type.
FieldAt(fields, path) ==
    IF Len(path) = 1 THEN fields[Head(path)]
    ELSE FieldAt(fields[Head(path)].fields, Tail(path))

\* The fields of the record type at a path, the root type at the empty path.
RecordAt(path) == IF path = <<>> THEN typ ELSE FieldAt(typ, path).fields

\* The path without its last index.
Front(path) == SubSeq(path, 1, Len(path) - 1)

\* The segments from the root to a path, joined as the messages print them.
PrefixText(path) == stringsJoin(PathSegments(typ, path), loader.sep)

\* What the error returned for a recovered panic tells about the place of
\* the panic: the type and the naming prefix.
Identifies(e, ft) ==
    IF ft.point = "setFieldVal"
    THEN /\ e.key = PrefixText(ft.fpath)
         /\ e.of.ptrs = 0
         /\ e.of.kind = FieldAt(typ, ft.fpath).kind
         /\ e.of.fields = FieldAt(typ, ft.fpath).fields
    ELSE IF ft.point = "NumField" /\ ft.fpath = <<>>
    THEN /\ e.key = <<>>
         /\ e.of.ptrs = 1
         /\ e.of.kind = IF target = "ptrInt" THEN "int" ELSE "struct"
    ELSE IF ft.point = "NumField"
    THEN /\ e.key = PrefixText(ft.fpath)
         /\ e.of.ptrs >= 2
         /\ e.of.kind = "struct"
         /\ e.of.fields = RecordAt(ft.fpath)
    ELSE /\ e.key = PrefixText(Front(ft.fpath))
         /\ e.of.ptrs = 1
         /\ e.of.kind = "struct"
         /\ e.of.fields = RecordAt(Front(ft.fpath))

\* C11: no panic escapes Load: a panic raised while a level's fields are
\* processed (in the caller's naming strategy, in a caller's UnmarshalText,
\* by NumField or Type on a pointer to a pointer or on what Load was given)
\* ends the bind with a returned error that carries the panic value, the
\* type of the record or field and the naming prefix of the place; without
\* a panic no such error is returned, and the error of a failed coercion is
\* returned as loadToField wrapped it.
C11_FaultGuard ==
    /\ pc /= "crashed"
    /\ Done =>
          /\ Len(faults) <= 1
          /\ faults = <<>> => err.kind /= "panic"
          /\ \A i \in 1..Len(faults) :
                /\ err.kind = "panic"
                /\ Identifies(err, faults[i])
          /\ \A l \in Lookups :
                l.outcome = "error" =>
                    err = [kind |-> "field", key |-> l.key, chain |-> l.cause]

\* A bind with prefix-less nested fields ended with the error of a panic
\* raised by UnmarshalText of a pointer field's type.
C11_Witness ==
    /\ Done
    /\ typ = DecodeConfig
    /\ faults = << Fault("setFieldVal", <<4>>) >>
    /\ err.kind = "panic"
    /\ err.chain = <<"UnmarshalText">>
    /\ err.key = <<"F","I","L","E">>

\* The kinds the built-in coercions support.
Supported == {"string", "bool", "duration", "int", "uint", "float", "slice", "map"}

RECURSIVE DecimalText(_)
\* The decimal text of a natural number.
DecimalText(n) ==
    IF n < 10 THEN <<DigitChars[n + 1]>>
    ELSE DecimalText(n \div 10) \o <<DigitChars[(n % 10) + 1]>>

\* The value v of a field of type tf is what the text means for that type:
\* the text itself, the truth value, the duration (in seconds), the number
\* if the width holds it, the numbers whose decimal texts joined by the
\* array separator give the text, the mapping of the object literal.
IsCoercionOf(v, tf, text) ==
    IF tf.kind = "string" THEN v = text
    ELSE IF tf.kind = "bool" THEN text = <<"t","r","u","e">> /\ v = TRUE
    ELSE IF tf.kind = "duration" THEN text = <<"5","s">> /\ v = 5
    ELSE IF tf.kind \in {"int", "uint"}
         THEN /\ IsDecimal(text)
              /\ Representable(DecimalOf(text), tf.kind, tf.bits)
              /\ v = DecimalOf(text)
    ELSE IF tf.kind = "float" THEN IsDecimal(text) /\ v = DecimalOf(text)
    ELSE IF tf.kind = "slice"
         THEN /\ Len(v) >= 1
              /\ \A i \in 1..Len(v) : v[i] \in Nat
              /\ stringsJoin([i \in 1..Len(v) |-> DecimalText(v[i])], loader.arraySep) = text
    ELSE text = <<"{", "}">> /\ v = [isNil |-> FALSE, entries |-> <<>>]

\* C12: when Load returns no error, every field of a supported kind whose
\* key was present holds the value coerced from the key's text.
C12_SuccessPopulated ==
    Done /\ err = NoErr =>
        \A l \in Lookups :
            l.exist /\ ~l.tf.dec /\ l.tf.kind \in Supported =>
                /\ FinalAt(l.fpath).ok
                /\ IsCoercionOf(Deref(l.tf, FinalAt(l.fpath).val), l.tf, l.text)

\* No key the bind looked up, or could still look up, is present.
EmptyEnvironment == \A k \in DOMAIN env : ~env[k].exist

\* C13: with none of the record's keys present (and a naming strategy that
\* returns), Load returns no error, the root call reports found = false, and
\* the record is as it was before the bind, for every record type and every
\* record of it.
C13_EmptyEnvironment ==
    /\ Done
    /\ target = "ptrStruct"
    /\ loader.fieldNameTransformer /= "panics"
    /\ EmptyEnvironment
    => /\ err = NoErr
       /\ ~found
       /\ rec = rec0

\* Well-formed texts of an integer element, none containing a separator.
ElemTexts == { <<"1">>, <<"2">>, <<"3">>, <<"4">> }

\* The lists of one to MaxParts element texts.
ElemLists == UNION { [1..n -> ElemTexts] : n \in 1..MaxParts }

EnvAt(key) == IF key \in DOMAIN env THEN env[key] ELSE Absent

RECURSIVE SeqFields(_, _, _, _, _, _)
RECURSIVE SeqField(_, _, _, _, _, _, _)
\* Load run alone, from its first statement to its return, on the fields
\* from index i on of the record v: the error, found, and the record
\* afterwards.
SeqFields(c, fields, v, prefix, i, fnd) ==
    IF i > Len(fields) THEN [err |-> NoErr, found |-> fnd, val |-> v]
    ELSE IF ~fields[i].exported THEN SeqFields(c, fields, v, prefix, i + 1, fnd)
    ELSE IF getFieldNamePanics(c, fields[i])
    THEN [err |-> PanicError(c, prefix, "fieldNameTransformer",
                             TypeOf(1, "struct", 0, fields)),
          found |-> FALSE, val |-> v]
    ELSE SeqField(c, fields, v, prefix, i, fnd,
                  loadToField(c, fields[i], v[i], prefix,
                              EnvAt(buildEnvKey(c, fields[i], prefix).key), "ok"))

\* The field i, r being what loadToField computed for it, and the fields
\* after it.
SeqField(c, fields, v, prefix, i, fnd, r) ==
    LET tf  == fields[i]
        v1  == [v EXCEPT ![i] = r.val]
        sv  == IF r.outcome = "struct" THEN setStructVal(tf, r.val) ELSE "none"
        sub == SeqFields(c, tf.fields,
                         IF sv = "fresh" THEN ZeroStruct(tf.fields) ELSE r.val,
                         r.nPrefix, 1, FALSE)
        v2  == IF sv = "inplace" THEN [v1 EXCEPT ![i] = sub.val]
               ELSE IF setsPointer(sub.err, sub.found, TRUE)
               THEN [v1 EXCEPT ![i] = Ptr(sub.val)]
               ELSE v1
    IN  IF r.outcome = "panic"
        THEN [err |-> PanicError(c, r.nPrefix, r.cause[2],
                                 TypeOf(0, tf.kind, tf.bits, tf.fields)),
              found |-> FALSE, val |-> v1]
        ELSE IF r.outcome = "error"
        THEN [err |-> FieldError(r.key, r.cause), found |-> FALSE, val |-> v1]
        ELSE IF r.outcome = "set"
        THEN SeqFields(c, fields, v1, prefix, i + 1, TRUE)
        ELSE IF sv = "panic"
        THEN [err |-> PanicError(c, r.nPrefix,
                                 "reflect: call of reflect.Value.NumField",
                                 TypeOf(IF tf.deep /\ ~r.val.nil THEN 3 ELSE 2,
                                        "struct", 0, tf.fields)),
              found |-> FALSE, val |-> v1]
        ELSE IF sv \in {"fresh", "inplace"}
        THEN IF sub.err /= NoErr
             THEN [err |-> sub.err, found |-> FALSE, val |-> v2]
             ELSE SeqFields(c, fields, v2, prefix, i + 1, fnd \/ sub.found)
        ELSE SeqFields(c, fields, v, prefix, i + 1, fnd)

\* What a call on a pointer to the record r0 of type t returns and leaves
\* when no other call runs.
Alone(t, r0) == SeqFields(loader, t, r0, <<>>, 1, FALSE)

BothDone == other.id /= 0 /\ pc = "done" /\ other.pc = "done"

\* C15: Load assigns no field of the Loader; a step of one call leaves the
\* record and the progress of the other call as they are; and when two
\* calls on one Loader, interleaved in any way, have both returned, each has
\* returned the error and left the record that it returns and leaves when
\* run alone in the same environment.
C15_ConcurrentReuse ==
    /\ [][loader' = loader]_vars
    /\ [][other'.id = other.id => other' = other]_vars
    /\ [](BothDone =>
            /\ err = Alone(typ, rec0).err
            /\ rec = Alone(typ, rec0).val
            /\ other.err = Alone(other.typ, other.rec0).err
            /\ other.rec = Alone(other.typ, other.rec0).val)

\* Two calls were interleaved field by field, both found keys and both
\* returned; one of them bound a pointer field.
C15_Witness ==
    /\ BothDone
    /\ err = NoErr
    /\ other.err = NoErr
    /\ found
    /\ other.found
    /\ typ = PointerConfig
    /\ ~rec[1].nil
    /\ Len(lookups) >= 3
    /\ Len(other.lookups) >= 3

\* C16: a field whose key is present and whose type, behind its pointer if
\* it is one, has no UnmarshalText and is none of the supported kinds nor a
\* record makes the bind fail: loadToField returns an error for it, and Load
\* returns an error.
C16_UnsupportedType ==
    \A l \in Lookups :
        l.exist /\ ~l.tf.dec /\ ~l.tf.deep /\ l.tf.kind \notin Supported \cup {"struct"} =>
            /\ l.outcome = "error"
            /\ l.cause /= <<>>
            /\ err /= NoErr
            /\ Done => err.kind = "field" /\ err.key = l.key

\* Binds ended with the error of a channel field whose key was present, the
\* field held directly or behind a pointer.
C16_Witness ==
    /\ Done
    /\ err.kind = "field"
    /\ \E l \in Lookups :
          l.exist /\ l.tf.kind = "chan" /\ l.tf.ptr /\ err.key = l.key

(***************************************************************************)
(* Package configtype, stated on the texts of the model: what a path and   *)
(* what a file's contents are once their references are replaced, and what *)
(* the contents give each key.                                             *)
(***************************************************************************)
Referenced(name) == IF name \in DOMAIN osEnv THEN osEnv[name] ELSE <<>>

PathMeant(path) ==
    IF path \in {RefPath, BracePath} THEN Referenced(<<"D">>) \o <<"/", "a">>
    ELSE path

ContentsMeant(c) ==
    IF c = <<"h", ":", "$", "V">> THEN <<"h", ":">> \o Referenced(<<"V">>)
    ELSE c

\* The keys the contents set, each with its value; no key for contents no
\* decoder takes.
Assigned(c) ==
    IF c = <<"h", ":", "a", ",", "p", ":", "b">>
    THEN [k \in {"h", "p"} |-> IF k = "h" THEN <<"a">> ELSE <<"b">>]
    ELSE IF c = <<"h", ":", "c">> THEN [k \in {"h"} |-> <<"c">>]
    ELSE IF c = <<"h", ":", "r">> THEN [k \in {"h"} |-> <<"r">>]
    ELSE IF c = <<"h", ":", "$", "V">> THEN [k \in {"h"} |-> Referenced(<<"V">>)]
    ELSE <<>>

\* The steps are: the file at the path meant is read, its contents have
\* their references replaced, the result is parsed; a missing file ends
\* them at the read.  first is where the read comes in the steps.
ReadExpandParse(steps, first, path) ==
    /\ Len(steps) >= first
    /\ steps[first] = Step("ReadFile", PathMeant(path))
    /\ IF PathMeant(path) \notin DOMAIN files
       THEN Len(steps) = first
       ELSE /\ Len(steps) = first + 2
            /\ steps[first + 1] = Step("ExpandEnv", files[PathMeant(path)])
            /\ steps[first + 2] = Step("Unmarshal", ContentsMeant(files[PathMeant(path)]))

\* An error that carries the path, as stored or as meant.
CarriesPath(e, path) == e /= NoLibErr /\ e.path \in {path, PathMeant(path)}

\* C17: UnmarshalText of a JSONFile, YAMLFile or TOMLFile with a text that
\* is not empty stores the text as the path, replaces the references in the
\* path, reads the file at the resulting path, replaces the references in
\* its contents and parses the result into the payload, in that order; a
\* failure to read or to parse returns an error that carries the path.
C17_FileSideLoad ==
    (ret.op = "UnmarshalText" /\ recv.type \in FileTypes /\ ret.arg /= <<>>) =>
        /\ recv.FilePath = ret.arg
        /\ Len(ret.steps) >= 2
        /\ ret.steps[1] = Step("FilePath", ret.arg)
        /\ IF ret.steps[2].what = "ExpandEnv"
           THEN /\ ret.steps[2].text = ret.arg
                /\ ReadExpandParse(ret.steps, 3, ret.arg)
           ELSE ReadExpandParse(ret.steps, 2, ret.arg)
        /\ IF PathMeant(ret.arg) \notin DOMAIN files
           THEN CarriesPath(ret.err, ret.arg)
           ELSE IF Assigned(files[PathMeant(ret.arg)]) = <<>>
           THEN ret.err = NoLibErr \/ CarriesPath(ret.err, ret.arg)
           ELSE /\ ret.err = NoLibErr
                /\ \A k \in DOMAIN Assigned(files[PathMeant(ret.arg)]) :
                      recv.Data[k] = Assigned(files[PathMeant(ret.arg)])[k]

\* C17 for the two wrappers other than JSONFile.
C17_ExceptJSON == recv.type /= "JSONFile" => C17_FileSideLoad

\* The path of the file the steps read.
ReadPath(steps) ==
    steps[CHOOSE i \in 1..Len(steps) : steps[i].what = "ReadFile"].text

\* What the contents give a payload: the keys they set, nothing for the rest.
Denoted(c) ==
    [k \in PayloadKeys |-> IF k \in DOMAIN Assigned(c) THEN Assigned(c)[k] ELSE <<>>]

\* A step of Reload is as claimed: with no path nothing happens; with a
\* path the steps are those UnmarshalText takes once the path is stored,
\* and when they succeed the payload is what the file now holds.
ReloadAsClaimed ==
    IF recv.FilePath = <<>>
    THEN ret'.err = NoLibErr /\ recv' = recv
    ELSE /\ recv'.FilePath = recv.FilePath
         /\ ret'.steps = Tail(fileUnmarshalText(recv, recv.FilePath, files, osEnv).steps)
         /\ ret'.err = fileUnmarshalText(recv, recv.FilePath, files, osEnv).err
         /\ ret'.err = NoLibErr =>
               recv'.Data = Denoted(files[ReadPath(ret'.steps)])

\* C18: Reload of a JSONFile, YAMLFile or TOMLFile whose stored path is
\* empty returns no error and leaves the path and the payload as they are;
\* with a stored path it runs the read-expand-parse sequence of
\* UnmarshalText again on that path, so that after the file has changed a
\* successful Reload leaves the payload holding what the file now holds.
C18_Reload == [][FileReload => ReloadAsClaimed]_vars

\* C18 as the code has it: a successful Reload gives every key the file now
\* sets its value and leaves the other fields of the payload as they were.
ReloadOverlays ==
    IF recv.FilePath = <<>>
    THEN ret'.err = NoLibErr /\ recv' = recv
    ELSE /\ recv'.FilePath = recv.FilePath
         /\ ret'.steps = Tail(fileUnmarshalText(recv, recv.FilePath, files, osEnv).steps)
         /\ ret'.err = fileUnmarshalText(recv, recv.FilePath, files, osEnv).err
         /\ ret'.err = NoLibErr =>
               \A k \in PayloadKeys :
                   recv'.Data[k] =
                       IF k \in DOMAIN Assigned(files[ReadPath(ret'.steps)])
                       THEN Assigned(files[ReadPath(ret'.steps)])[k]
                       ELSE recv.Data[k]

C18_ReloadOverlays == [][FileReload => ReloadOverlays]_vars

\* The file was loaded with both keys, has lost one since, and Reload
\* succeeded: the payload still holds the key the file no longer has.
C18_Witness ==
    /\ ret.op = "Reload"
    /\ ret.err = NoLibErr
    /\ recv.FilePath = DiskPath
    /\ DiskPath \in DOMAIN files
    /\ files[DiskPath] = <<"h", ":", "c">>
    /\ recv.Data = [k \in PayloadKeys |-> IF k = "h" THEN <<"c">> ELSE <<"b">>]

(***************************************************************************)
(* Standard base64, stated on bits: the characters of the alphabet stand   *)
(* for six bits each, the bytes of the value for eight.                    *)
(***************************************************************************)
InAlphabet(c) == IsLetter(c) \/ IsDigit(c) \/ c \in {"+", "/"}

Sextet(c) ==
    IF IsUpper(c) THEN (CHOOSE i \in 1..26 : UpperLetters[i] = c) - 1
    ELSE IF IsLower(c) THEN 25 + (CHOOSE i \in 1..26 : LowerLetters[i] = c)
    ELSE IF IsDigit(c) THEN 52 + DigitVal(c)
    ELSE IF c = "+" THEN 62
    ELSE 63

\* n in w bits, the high bit first.
BitsOf(n, w) == [i \in 1..w |-> (n \div (2 ^ (w - i))) % 2]

\* The text without the line ends a decoder passes over.
Significant(text) == SelectSeq(text, LAMBDA c : c \notin {"\n", "\r"})

\* Groups of four characters of the alphabet, the last one with at most two
\* "=" at its end.
WellFormed(text) ==
    /\ Len(Significant(text)) % 4 = 0
    /\ \E pad \in 0..2 :
          /\ pad <= Len(Significant(text))
          /\ \A i \in 1..Len(Significant(text)) :
                IF i <= Len(Significant(text)) - pad
                THEN InAlphabet(Significant(text)[i])
                ELSE Significant(text)[i] = "="

DataBits(text) ==
    Concat([i \in 1..Len(SelectSeq(text, InAlphabet)) |->
               BitsOf(Sextet(SelectSeq(text, InAlphabet)[i]), 6)])

\* bytes are the whole bytes the bits of the text make.
Decodes(text, bytes) ==
    /\ Len(bytes) = (6 * Len(SelectSeq(text, InAlphabet))) \div 8
    /\ \A i \in 1..Len(bytes) : bytes[i] \in 0..255
    /\ Concat([i \in 1..Len(bytes) |-> BitsOf(bytes[i], 8)])
           = SubSeq(DataBits(text), 1, 8 * Len(bytes))

\* The text Base64 is given.
Secret == Referenced(SecretName)

\* A step of UnmarshalText of Base64 is as claimed: an empty text is no
\* error and leaves the empty value, a well-formed text sets the bytes it
\* encodes, any other text is an error.
Base64AsClaimed ==
    IF Secret = <<>>
    THEN ret'.err = NoLibErr /\ recv'.value = <<>>
    ELSE IF WellFormed(Secret)
    THEN ret'.err = NoLibErr /\ Decodes(Secret, recv'.value)
    ELSE ret'.err /= NoLibErr

\* C19: UnmarshalText of Base64 sets the value to the decoded bytes for
\* well-formed standard base64 text, returns an error for malformed text,
\* wrong padding included, and for an empty text returns no error, does
\* nothing, and the result is the empty value.
C19_Base64 == [][Base64UnmarshalText => Base64AsClaimed]_vars

\* As the code has it: an empty text leaves the value as it was, empty or
\* not; so does a malformed one.
Base64AsCoded ==
    IF Secret = <<>>
    THEN ret'.err = NoLibErr /\ recv' = recv
    ELSE IF WellFormed(Secret)
    THEN ret'.err = NoLibErr /\ Decodes(Secret, recv'.value)
    ELSE ret'.err /= NoLibErr /\ recv' = recv

C19_Base64ValueKept == [][Base64UnmarshalText => Base64AsCoded]_vars

\* A Base64 that held "o" was given the empty text and holds "o".
C19_Witness ==
    /\ recv.type = "Base64"
    /\ ret.op = "UnmarshalText"
    /\ ret.arg = <<>>
    /\ ret.err = NoLibErr
    /\ recv.value = <<111>>

\* "test" was decoded from its encoding.
C19_Decoded ==
    /\ recv.type = "Base64"
    /\ ret.op = "UnmarshalText"
    /\ ret.arg = <<"d","G","V","z","d","A","=","=">>
    /\ ret.err = NoLibErr
    /\ recv.value = <<116, 101, 115, 116>>

(***************************************************************************)
(* MACRO_CASE, stated character by character.                              *)
(***************************************************************************)
\* An underscore comes before the character at i (the first is at 1).
UnderscoreBefore(name, i) ==
    /\ i > 1
    /\ IsUpper(name[i])
    /\ name[i - 1] /= "_"
    /\ \/ i < Len(name) /\ IsLower(name[i + 1])
       \/ IsLower(name[i - 1])

MacroCase(name) ==
    Concat([i \in 1..Len(name) |->
               IF UnderscoreBefore(name, i) THEN <<"_", ToUpper(name[i])>>
               ELSE <<ToUpper(name[i])>>])

\* The Loader built with no naming option named the field.
DefaultNamed == ret.op = "getFieldName" /\ loader = New(<<>>)

NamedAs(name, key) ==
    (DefaultNamed /\ ret.arg = name) =>
        ret.out = key /\ ret.steps = <<Step("LookupEnv", key)>>

RecordShaped(l) == l.tf.kind = "struct" /\ ~l.tf.dec /\ ~l.tf.deep

\* The four situations of such a field: its key, and the pointer at the start.
KeyPresent(l) == l.exist

StartsNil(l) == l.tf.ptr /\ l.before.nil

StartsSet(l) == l.tf.ptr /\ ~l.before.nil

\* loadToField went into the sub-record: a fresh one for a nil pointer, the
\* existing one otherwise.
Recursed(l) ==
    /\ l.outcome = "struct"
    /\ l.struct = IF StartsNil(l) THEN "fresh" ELSE "inplace"

\* C21: for every settable field whose dereferenced type is record-shaped
\* and not decode-capable, held directly or behind one pointer, the bind
\* recurses into the sub-record, whether the field's own key is absent or
\* present (the value is ignored, it is no error) and whether a pointer
\* field is nil at the start (fresh record) or not (the record it points to
\* is bound in place).
C21_RecordRecursion ==
    \A i \in 1..Len(lookups) :
        RecordShaped(lookups[i]) => Recursed(lookups[i])

\* C21 for the situations where it holds: the record is held directly, or
\* the pointer is nil and the field's own key is absent.
C21_DirectOrNilAbsent ==
    \A i \in 1..Len(lookups) :
        (/\ RecordShaped(lookups[i])
         /\ ~StartsSet(lookups[i])
         /\ ~(StartsNil(lookups[i]) /\ KeyPresent(lookups[i])))
            => Recursed(lookups[i])

\* C21 fails in each of the other three situations of a pointer field.
C21_PointerNeverInPlace ==
    \A i \in 1..Len(lookups) :
        (/\ RecordShaped(lookups[i])
         /\ (StartsSet(lookups[i]) \/ (StartsNil(lookups[i]) /\ KeyPresent(lookups[i]))))
            => /\ lookups[i].struct = "panic"
               /\ err.kind = "panic"

(***************************************************************************)
(* The order of the walk.                                                  *)
(***************************************************************************)
\* p comes before q depth first in declaration order: p is above q, or at
\* the first place where they part p has the smaller index.
ComesBefore(p, q) ==
    \/ IsProperPrefix(p, q)
    \/ \E n \in 1..Len(p) :
          /\ n <= Len(q)
          /\ SubSeq(p, 1, n - 1) = SubSeq(q, 1, n - 1)
          /\ p[n] < q[n]

\* The bind failed at the field of this lookup.
FailedAt(l) == l.outcome \in {"error", "panic"} \/ l.struct = "panic"

\* The lookups so far are in order and pass over no exported field: the
\* record above a field was looked up before it, and so were its elder
\* siblings.
InOrder ==
    /\ \A i, j \in 1..Len(lookups) :
          i < j => ComesBefore(lookups[i].fpath, lookups[j].fpath)
    /\ \A j \in 1..Len(lookups) :
          LET p == lookups[j].fpath
          IN  /\ Len(p) > 1 =>
                    \E i \in 1..(j - 1) : lookups[i].fpath = Front(p)
              /\ \A n \in 1..(p[Len(p)] - 1) :
                    RecordAt(Front(p))[n].exported =>
                        \E i \in 1..(j - 1) : lookups[i].fpath = Append(Front(p), n)

\* Only the last lookup may be one that failed, and the error is its error.
FirstFailureReturned ==
    /\ \A i \in 1..Len(lookups) : FailedAt(lookups[i]) =>
          /\ i = Len(lookups)
          /\ err /= NoErr
          /\ lookups[i].outcome = "error" =>
                err = [kind |-> "field", key |-> lookups[i].key,
                       chain |-> lookups[i].cause]
          /\ lookups[i].outcome /= "error" => err.kind = "panic"
    /\ (err /= NoErr /\ faults = <<>> /\ err.kind /= "usage") =>
          (lookups /= <<>> /\ FailedAt(lookups[Len(lookups)]))

\* Once there is an error nothing more is looked up and the caller's
\* record is not written.
NothingAfterFailure ==
    err /= NoErr => (lookups' = lookups /\ rec' = rec /\ env' = env /\ err' = err)

\* C22: fields are processed depth first in declaration order; the error
\* Load returns is the one of the first field that fails in that order, and
\* no field after the failing one is looked up or modified by the bind.
C22_FirstFailure ==
    /\ [](InOrder /\ FirstFailureReturned)
    /\ [][NothingAfterFailure]_vars

\* A bind that failed at its second lookup, with fields left after it.
C22_Witness ==
    /\ pc = "done"
    /\ err.kind = "field"
    /\ Len(lookups) = 2
    /\ lookups[1].outcome = "set"
    /\ typ = BasicConfig

\* A call for a sequence field with built-in coercion whose key is present.
SequenceLookup(l) == l.exist /\ l.tf.kind = "slice" /\ ~l.tf.dec

\* The parts the text of a sequence field splits into.
PartsOf(l) == stringsSplit(l.text, loader.arraySep)

\* Some part of the text is no integer element.
ElementFails(l) == \E i \in 1..Len(PartsOf(l)) : ~IsDecimal(PartsOf(l)[i])

\* The error of the call is marked as the failure of a slice value.
SliceValueFailure(l) ==
    /\ l.outcome = "error"
    /\ l.cause /= <<>>
    /\ l.cause[1] = "cannot set slice value"
    /\ err = FieldError(l.key, l.cause)

\* The field of the call holds what it held when the call began.
KeepsValue(l) ==
    /\ l.val = l.before
    /\ FinalAt(l.fpath).ok
    /\ FinalAt(l.fpath).val = l.before

\* C23: a sequence field whose text splits into zero parts is left as it was
\* and the call returns no error; a sequence field one of whose elements
\* fails to coerce fails with an error marked as a slice-value failure and
\* keeps the value it had before, no partly filled sequence being assigned.
C23_SequenceEdgeCases ==
    \A l \in Lookups :
        SequenceLookup(l) =>
            /\ PartsOf(l) = <<>> => l.cause = <<>> /\ l.outcome /= "error" /\ KeepsValue(l)
            /\ ElementFails(l) => SliceValueFailure(l) /\ KeepsValue(l)

\* With the empty array separator the empty text split into no part, and the
\* sequence that held 9 still holds it, Load returning no error.
C23_Witness ==
    /\ Done
    /\ err = NoErr
    /\ loader.arraySep = <<>>
    /\ \E l \in Lookups :
          /\ SequenceLookup(l)
          /\ l.text = <<>>
          /\ l.before = <<9>>
          /\ FinalAt(l.fpath).val = <<9>>

\* The second element of the text 1,x failed: the sequence that held 9 still
\* holds it and Load returned the slice-value failure.
C23_ElementFailed ==
    /\ Done
    /\ \E l \in Lookups :
          /\ SequenceLookup(l)
          /\ l.text = <<"1", ",", "x">>
          /\ loader.arraySep = <<",">>
          /\ l.before = <<9>>
          /\ SliceValueFailure(l)
          /\ FinalAt(l.fpath).val = <<9>>

\* The segment stack a call of recursiveLoadToStruct in progress sees.
StackSeen(k) == Elems(arrays, stack[k].prefix)

\* The field the record of the k-th call in progress is the value of.
FieldOf(k) == FieldAt(typ, stack[k].fpath)

\* The segment a field that is not embedded pushes: the env tag, the alias
\* or the naming strategy's output.
OwnSegment(tf) ==
    IF tf.env.ok THEN tf.env.val
    ELSE IF tf.alias.ok THEN tf.alias.val
    ELSE NamingStrategy(tf.name)

\* The root call has the empty stack; the call for a sub-record has the stack
\* of the call above it with the one segment of its field pushed, or that
\* stack itself if the field is embedded.
Descent ==
    \A k \in 1..Len(stack) :
        IF k = 1 THEN stack[k].fpath = <<>> /\ StackSeen(k) = <<>>
        ELSE IF FieldOf(k).anon THEN StackSeen(k) = StackSeen(k - 1)
        ELSE StackSeen(k) = Append(StackSeen(k - 1), OwnSegment(FieldOf(k)))

\* What a field is looked up with comes from its ancestors alone: the parent
\* stack is the segments from the root to its record, whatever was looked up
\* or set before it, and the stack it hands on adds its own segment.
FromAncestorsOnly ==
    \A l \in Lookups :
        /\ l.parent = PathSegments(typ, Front(l.fpath))
        /\ l.nPrefix = PathSegments(typ, l.fpath)
        /\ l.key = IF l.tf.env.ok /\ ~l.tf.anon THEN l.tf.env.val
                   ELSE ComposedKey(PathSegments(typ, l.fpath))

\* A step leaves the stack of every call that stays in progress as it was.
StacksKept ==
    \A k \in 1..Len(stack) :
        k <= Len(stack') /\ stack'[k].fpath = stack[k].fpath =>
            Elems(arrays', stack'[k].prefix) = StackSeen(k)

\* C24: the root call starts with an empty segment stack; a descent passes
\* the parent's stack plus exactly one segment for a field that is not
\* embedded and the parent's stack for an embedded one; no step alters the
\* stack a call in progress sees, so that later siblings see what earlier
\* ones saw, and the key of a field comes from the Loader, its descriptor and
\* its ancestors alone.
C24_NamingContext ==
    /\ [](Descent /\ FromAncestorsOnly)
    /\ [][StacksKept]_vars

\* W below A.B.C was looked up as A_B_C_W after X and Y had written their
\* segments into the backing array the stack of C has room in.
C24_Witness ==
    /\ Done
    /\ typ = LayeredConfig
    /\ loader = New(<<>>)
    /\ \E x, w \in Lookups :
          /\ x.fpath = <<1, 1, 1, 1>>
          /\ w.fpath = <<1, 1, 1, 3>>
          /\ w.parent = x.parent
          /\ w.key = <<"A", "_", "B", "_", "C", "_", "W">>
    /\ \E a \in 1..Len(arrays) :
          arrays[a] = << <<"A">>, <<"B">>, <<"C">>, <<"W">> >>

\* A second call of Load has returned, on the record the first call had
\* returned from without error.
LoadedTwice == pc = "done" /\ other.id = 1 /\ other.err = NoErr

RECURSIVE HasRecordPointer(_)
\* The record type holds a pointer to a record, at some depth.
HasRecordPointer(fields) ==
    \E i \in 1..Len(fields) :
        \/ fields[i].kind = "struct" /\ fields[i].ptr
        \/ HasRecordPointer(fields[i].fields)

RECURSIVE HasDecoder(_)
\* The record type holds a field whose type decodes itself from text.
HasDecoder(fields) ==
    \E i \in 1..Len(fields) : fields[i].dec \/ HasDecoder(fields[i].fields)

\* C25: if a first Load on a record returns no error, a second Load with the
\* same Loader and environment on that record returns no error and leaves
\* the record as the first Load left it, for every record type, those with
\* pointers to records included (types that decode themselves, whose
\* UnmarshalText need not repeat itself, set aside).
C25_Idempotent ==
    LoadedTwice /\ ~HasDecoder(typ) => err = NoErr /\ rec = other.rec

\* The second Load repeats the first on every record type without a pointer
\* to a record and without a type that decodes itself.
C25_IdempotentNoRecordPointer ==
    LoadedTwice /\ ~HasRecordPointer(typ) /\ ~HasDecoder(typ) =>
        err = NoErr /\ rec = other.rec

\* The second Load fails only at a pointer to a record that is not nil any
\* more, by the panic of NumField, or in a type that decodes itself.
C25_SecondFailsAtRecordPointer ==
    LoadedTwice /\ err /= NoErr /\ ~HasDecoder(typ) =>
        /\ Len(faults) = 1
        /\ faults[1].point = "NumField"
        /\ LET l == lookups[Len(lookups)]
           IN  l.tf.kind = "struct" /\ l.tf.ptr /\ ~l.before.nil

\* A first Load of PointerConfig found SERVER_HOST and set Server; the second
\* Load returned an error.
C25_SecondLoadFailed ==
    /\ LoadedTwice
    /\ typ = PointerConfig
    /\ other.rec0 = ZeroStruct(typ)
    /\ ~other.rec[1].nil
    /\ err /= NoErr

\* The kinds the built-in coercions parse from text.
ParsedKinds == {"bool", "duration", "int", "uint", "float", "slice"}

\* A call whose key was present and whose built-in coercion failed.
CoercionFailed(l) ==
    /\ l.exist
    /\ l.via \in ParsedKinds
    /\ l.outcome = "error"

\* The field of the call holds v when the call returns and, if the record it
\* is in can be reached from the caller's record, from then on.
Holds(l, v) ==
    /\ l.val = v
    /\ FinalAt(l.fpath).ok => FinalAt(l.fpath).val = v

\* C26 as stated: a field of a parsed kind whose coercion fails, held
\* directly or behind a pointer, has the value it had before the bind, a nil
\* pointer to a scalar staying nil.
C26_FailedFieldUntouched ==
    \A l \in Lookups : CoercionFailed(l) => Holds(l, l.before)

\* C26: a field of a parsed kind whose coercion fails keeps its value if it
\* is held directly or behind a pointer that is not nil; a pointer that was
\* nil points to the zero value of its type after the failure.
C26_FailedFieldKeptOrAllocated ==
    \A l \in Lookups :
        CoercionFailed(l) =>
            IF l.tf.ptr /\ l.before.nil
            THEN Holds(l, Ptr(ZeroDirect(l.tf)))
            ELSE Holds(l, l.before)

\* Load failed at D of WidthConfig, a nil pointer to an unsigned integer, on
\* the text abc: D points to zero.
C26_Witness ==
    /\ Done
    /\ typ = WidthConfig
    /\ err.kind = "field"
    /\ rec0[4].nil
    /\ ~rec[4].nil
    /\ rec[4].val = 0
    /\ \E l \in Lookups :
          l.fpath = <<4>> /\ CoercionFailed(l) /\ l.text = <<"a", "b", "c">>

\* Load failed at D of WidthConfig that pointed to 5, on the text abc: D
\* still points to 5.
C26_ValueKept ==
    /\ Done
    /\ typ = WidthConfig
    /\ err.kind = "field"
    /\ rec0[4] = Ptr(5)
    /\ rec[4] = Ptr(5)
    /\ \E l \in Lookups :
          l.fpath = <<4>> /\ CoercionFailed(l) /\ l.text = <<"a", "b", "c">>

====
